---- MODULE Spec2Model ----
(***************************************************************************)
(* Pages of the terminal.  First the camera matrix view                    *)
(* (js/multi-cam-view.js): the camera registry, the                        *)
(* scene selector loadScene, the pan toggle, the glitch scheduler and the  *)
(* lost-signal noise loop, together with the browser's pending timers,     *)
(* animation-frame requests and event listeners they register.             *)
(***************************************************************************)
EXTENDS Integers, Sequences, FiniteSets, TLC

(***************************************************************************)
(* Bounds of the model.                                                    *)
(***************************************************************************)
\* setTimeout ids handed out by the browser are 1..MaxTimerId
MaxTimerId == 4
\* requestAnimationFrame ids handed out by the browser are 1..MaxRafId
MaxRafId == 4
\* Math.random() is sampled as k / RandDen for k in RandSamples
RandDen == 4

\* the sheets of the loader's own specification have 1..MaxRows rows
MaxRows == 3
\* the Directory sheets of the file browser have 0..MaxFileRows rows
MaxFileRows == 2
\* the Maintenance sheets of the maintenance log have 0..MaxLogRows rows
MaxLogRows == 2
\* the noise buffer is followed over MaxFrames animation frames
MaxFrames == 3

RandSamples == {0, RandDen - 1}

(***************************************************************************)
(* JavaScript values and conversions used by the loader.                   *)
(***************************************************************************)
Null == "null"
Undefined == "undefined"

\* a parsed number: ok = FALSE is NaN
Num(n) == [ok |-> TRUE, val |-> n]
NaN == [ok |-> FALSE, val |-> 0]

\* parseInt(text): the leading integer of the text, NaN when there is none
ParseInt(text) ==
    CASE text = "400" -> Num(400)
      [] text = "1200" -> Num(1200)
      [] text = "500" -> Num(500)
      [] text = "200" -> Num(200)
      [] text = "600px" -> Num(600)
      [] text = "7" -> Num(7)
      [] text = "7.5" -> Num(7)
      [] text = "6" -> Num(6)
      [] text = "0" -> Num(0)
      [] text = "-5" -> Num(0 - 5)
      [] OTHER -> NaN

\* parseFloat(text), in tenths (7.5 -> 75), NaN when there is none
ParseFloat(text) ==
    CASE text = "400" -> Num(4000)
      [] text = "1200" -> Num(12000)
      [] text = "500" -> Num(5000)
      [] text = "200" -> Num(2000)
      [] text = "600px" -> Num(6000)
      [] text = "7" -> Num(70)
      [] text = "7.5" -> Num(75)
      [] text = "6" -> Num(60)
      [] text = "0" -> Num(0)
      [] text = "-5" -> Num(0 - 50)
      [] OTHER -> NaN

\* x || dflt for a number x: NaN and 0 are falsy
NumOr(x, dflt) == IF ~x.ok \/ x.val = 0 THEN dflt ELSE x.val

\* x || dflt for a string x: the empty string is falsy
StrOr(x, dflt) == IF x = "" THEN dflt ELSE x

\* String.prototype.toUpperCase on the texts the sheets below contain
ToUpperCase(text) ==
    CASE text = "online" -> "ONLINE"
      [] text = "Flicker" -> "FLICKER"
      [] text = "interference" -> "INTERFERENCE"
      [] text = "Lost Signal" -> "LOST SIGNAL"
      [] text = "Degraded" -> "DEGRADED"
      [] text = "cam-a" -> "CAM-A"
      [] text = "cam-b" -> "CAM-B"
      [] text = "cam-c" -> "CAM-C"
      [] text = "cam-d" -> "CAM-D"
      [] text = "cam-e" -> "CAM-E"
      [] text = "cam-f" -> "CAM-F"
      [] OTHER -> text

\* url.toLowerCase().endsWith('.mp4' | '.webm' | '.mov')
IsVideoUrl(url) == url \in {"b.mp4", "C.WEBM", "f.mov"}

(***************************************************************************)
(* The Cams sheet as parseSheetData returns it: one record per data row,   *)
(* keyed by the lower-cased header names, every cell a text.               *)
(***************************************************************************)
Row(camid, section, status, imageurl, panenabled, panduration, gmin, gmax) ==
    [camid |-> camid, section |-> section, location |-> "", status |-> status,
     distance |-> "", hudtext |-> "", imageurl |-> imageurl,
     panenabled |-> panenabled, panduration |-> panduration,
     glitchminms |-> gmin, glitchmaxms |-> gmax]

SheetMain ==
    << Row("cam-a", "SECTION A", "online", "a.jpg", "true", "7", "400", "1200"),
       Row("cam-b", "SECTION B", "Flicker", "b.mp4", "false", "", "", ""),
       Row("", "SECTION B", "ONLINE", "x.jpg", "true", "7", "400", "1200"),
       Row("cam-c", "SECTION A", "interference", "C.WEBM", "TRUE", "7.5", "500", "500"),
       Row("cam-d", "", "Lost Signal", "d.jpg", "true", "6", "1200", "400"),
       Row("cam-e", "SECTION B", "", "", "false", "abc", "abc", "600px") >>

SheetSmall ==
    << Row("cam-f", "SECTION A", "FLICKER", "f.mov", "true", "0", "200", "600px"),
       Row("cam-d", "SECTION A", "LOST SIGNAL", "", "false", "-5", "0", "200"),
       Row("cam-e", "SECTION A", "Degraded", "e.png", "True", "7", "400", "1200") >>

\* a sheet of two LOST SIGNAL cameras and one ONLINE camera
SheetNoise ==
    << Row("cam-d", "SECTION A", "LOST SIGNAL", "", "false", "7", "400", "1200"),
       Row("cam-a", "SECTION A", "online", "a.jpg", "true", "7", "400", "1200"),
       Row("cam-e", "SECTION B", "Lost Signal", "", "false", "7", "400", "1200") >>

\* rows for the loader: a camId that repeats in another section (and, as
\* sheets may repeat a row, in the same section), an empty camId, an empty section, a lower-case label, a label
\* that names an inherited property, number texts of every kind, and camIds
\* that are decimal numbers
LoadRows ==
    { Row("cam-a", "SECTION B", "online", "a.jpg", "true", "7", "400", "1200"),
      Row("cam-a", "SECTION A", "Flicker", "b.mp4", "false", "7.5", "7.5", "600px"),
      Row("cam-b", "annex", "", "", "TRUE", "abc", "abc", ""),
      Row("cam-c", "annex", "interference", "C.WEBM", "true", "6", "500", "500"),
      Row("cam-d", "", "Lost Signal", "", "false", "-5", "0", "200"),
      Row("", "SECTION A", "online", "x.jpg", "true", "7", "400", "1200"),
      Row("cam-e", "constructor", "online", "e.png", "true", "0", "-5", "1200"),
      Row("10", "annex", "online", "a.jpg", "true", "7", "400", "1200"),
      Row("2", "SECTION A", "Flicker", "b.mp4", "false", "7", "400", "1200") }

\* the sheets of n rows
RECURSIVE SheetsOf(_)
SheetsOf(n) ==
    IF n = 0 THEN {<< >>}
    ELSE {Append(sheet, row) : sheet \in SheetsOf(n - 1), row \in LoadRows}

LoadSheets == UNION {SheetsOf(n) : n \in 1 .. MaxRows}

\* a sheet that has a header row only parses to no entries
Sheets == {SheetMain, SheetSmall, << >>}

\* ids loadScene is called with directly (the list's click handler passes
\* the ids of the rendered cameras): two ids of the sheets, an id no sheet
\* has, and a property name every object inherits from Object.prototype
InheritedKeys == {"constructor"}
SceneIds == {"cam-b", "cam-d", "nonexistent"} \cup InheritedKeys

(***************************************************************************)
(* State.                                                                  *)
(***************************************************************************)
VARIABLES
    pc,                     \* "start", "loading" (fetch in flight), "ready"
    cameras,                \* camera records keyed by camId
    cameraKeys,             \* Object.keys(cameras), in the order it has
    sections,               \* section label -> sequence of camera records
    camEntries,             \* the rows loadCameras got from parseSheetData
    activeId,
    panPaused,
    panNode,                \* index of the element in view, 0 for null
    glitchTimer,            \* timer id, 0 for null
    lostSignalAnimationId,  \* animation-frame id, 0 for null
    view,                   \* children of #view
    list,                   \* children of #list
    labelText,              \* #label
    stateText,              \* #state
    hudText,                \* #hud
    btnText,                \* #togglePan
    ariaLabel,              \* aria-label of #view
    glitchShow,             \* #glitch has class 'show'
    timers,                 \* the browser's pending setTimeout timers
    rafs,                   \* the browser's pending animation-frame requests
    listeners,              \* registered one-shot event listeners
    nextTimerId,
    nextRafId,
    calls,                  \* scheduler calls made by the last handler, in order
    lastOp,                 \* the last handler or callback that ran
    noise,                  \* closure of the last startLostSignalEffect call
    now,                    \* timestamp of the last animation frame, in ms
    pulse,                  \* parity of the glitch pulses on recycled timer ids
    personnel,              \* the personnel directory page (unnamed/part_001)
    files,                  \* the file browser page (unnamed/part_000)
    maintenance,            \* the maintenance log page (js/maintenance-log.js)
    buffer,                 \* the noise buffer of a canvas and what a frame writes
    footer                  \* the statistics footer of the file browser

\* the pages other than the camera matrix view: no handler of the view
\* touches them
pages == << personnel, files, maintenance, buffer, footer >>

viewVars == << pc, cameras, cameraKeys, sections, camEntries, activeId, panPaused, panNode,
           glitchTimer, lostSignalAnimationId, view, list, labelText,
           stateText, hudText, btnText, ariaLabel, glitchShow, timers, rafs, listeners,
           nextTimerId, nextRafId, calls, lastOp, noise, now, pulse >>

vars == << viewVars, pages >>

EmptyMap == [x \in {} |-> x]

MapPut(m, k, v) == [x \in DOMAIN m \cup {k} |-> IF x = k THEN v ELSE m[x]]

(***************************************************************************)
(* loadCameras: the registry and the section groups.                       *)
(***************************************************************************)
\* the camera record built from one row (the object literal)
CameraOf(entry) ==
    [id |-> entry.camid,
     section |-> StrOr(entry.section, "UNKNOWN"),
     location |-> StrOr(entry.location, "Unknown Location"),
     status |-> ToUpperCase(StrOr(entry.status, "OFFLINE")),
     distance |-> StrOr(entry.distance, "--"),
     hudText |-> StrOr(entry.hudtext, "CAMERA FEED"),
     imageUrl |-> entry.imageurl,
     panEnabled |-> entry.panenabled = "true" \/ entry.panenabled = "TRUE",
     panDuration |-> NumOr(ParseFloat(entry.panduration), 70),
     glitchMinMs |-> NumOr(ParseInt(entry.glitchminms), 400),
     glitchMaxMs |-> NumOr(ParseInt(entry.glitchmaxms), 1200)]

\* the forEach over the entries: reg is [cameras, keys, sections, threw].
\* sections is a plain object: for a label that names a property it
\* inherits, sections[label] is truthy without being an array and push
\* throws, which ends the forEach after the camera has been stored
\* the number a property key stands for when it is the decimal text of an
\* array index, and -1 for any other key
ArrayIndex(key) ==
    CASE key = "2" -> 2
      [] key = "10" -> 10
      [] OTHER -> 0 - 1

\* Object.keys(cameras) after the new key is added: the keys that are array
\* indices come first, in ascending numeric order, then the other keys in
\* the order they were added
KeyInsert(keys, key) ==
    IF ArrayIndex(key) < 0 THEN Append(keys, key)
    ELSE LET before == SelectSeq(keys, LAMBDA other :
                           ArrayIndex(other) >= 0
                           /\ ArrayIndex(other) < ArrayIndex(key))
             after == SelectSeq(keys, LAMBDA other :
                          ArrayIndex(other) < 0
                          \/ ArrayIndex(other) > ArrayIndex(key))
         IN  before \o << key >> \o after

RECURSIVE StoreEntries(_, _)
StoreEntries(entries, reg) ==
    IF entries = << >> THEN reg
    ELSE LET entry == Head(entries)
             cam == CameraOf(entry)
             group == IF cam.section \in DOMAIN reg.sections
                      THEN reg.sections[cam.section] ELSE << >>
             stored == [reg EXCEPT
                          !.cameras = MapPut(reg.cameras, cam.id, cam),
                          !.keys = IF cam.id \in DOMAIN reg.cameras
                                   THEN reg.keys
                                   ELSE KeyInsert(reg.keys, cam.id)]
         IN  IF entry.camid = "" THEN StoreEntries(Tail(entries), reg)
             ELSE IF cam.section \notin DOMAIN reg.sections
                     /\ cam.section \in InheritedKeys
             THEN [stored EXCEPT !.threw = TRUE]
             ELSE StoreEntries(Tail(entries),
                    [stored EXCEPT
                       !.sections = MapPut(reg.sections, cam.section,
                                           Append(group, cam))])

\* UTF-16 code units of the section labels, for Array.prototype.sort
CodeUnits(text) ==
    CASE text = "SECTION A" -> << 83, 69, 67, 84, 73, 79, 78, 32, 65 >>
      [] text = "SECTION B" -> << 83, 69, 67, 84, 73, 79, 78, 32, 66 >>
      [] text = "UNKNOWN" -> << 85, 78, 75, 78, 79, 87, 78 >>
      [] text = "annex" -> << 97, 110, 110, 101, 120 >>
      [] text = "constructor" ->
            << 99, 111, 110, 115, 116, 114, 117, 99, 116, 111, 114 >>
      [] OTHER -> << >>

RECURSIVE SeqLess(_, _)
SeqLess(a, b) ==
    IF b = << >> THEN FALSE
    ELSE IF a = << >> THEN TRUE
    ELSE IF Head(a) # Head(b) THEN Head(a) < Head(b)
    ELSE SeqLess(Tail(a), Tail(b))

StrLess(a, b) == SeqLess(CodeUnits(a), CodeUnits(b))

\* the labels sorted with the comparison reversed
RECURSIVE SortedLabelsDescending(_)
SortedLabelsDescending(labels) ==
    IF labels = {} THEN << >>
    ELSE LET most == CHOOSE l \in labels :
                       \A m \in labels \ {l} : StrLess(m, l)
         IN  << most >> \o SortedLabelsDescending(labels \ {most})

\* Object.keys(sections).sort()
RECURSIVE SortedLabels(_)
SortedLabels(labels) ==
    IF labels = {} THEN << >>
    ELSE LET least == CHOOSE l \in labels :
                        \A m \in labels \ {l} : StrLess(l, m)
         IN  << least >> \o SortedLabels(labels \ {least})

\* the .cam entries of one section, none active
RECURSIVE CamDivs(_)
CamDivs(group) ==
    IF group = << >> THEN << >>
    ELSE << [class |-> "cam", id |-> Head(group).id,
             state |-> Head(group).status, text |-> Head(group).location,
             active |-> FALSE] >> \o CamDivs(Tail(group))

RECURSIVE SectionDivs(_, _)
SectionDivs(labels, secs) ==
    IF labels = << >> THEN << >>
    ELSE << [class |-> "section", id |-> "", state |-> "",
             text |-> Head(labels), active |-> FALSE] >>
         \o CamDivs(secs[Head(labels)])
         \o SectionDivs(Tail(labels), secs)

Message(text) ==
    << [class |-> "message", id |-> "", state |-> "", text |-> text,
        active |-> FALSE] >>

\* renderCameraList: the children of #list
RenderCameraList(secs) ==
    IF DOMAIN secs = {} THEN Message("No cameras found")
    ELSE SectionDivs(SortedLabels(DOMAIN secs), secs)

(***************************************************************************)
(* The browser: timers, animation-frame requests, listeners.  The handlers *)
(* below are functions from a session record s to a session record.        *)
(***************************************************************************)
Cur ==
    [activeId |-> activeId, panPaused |-> panPaused, panNode |-> panNode,
     glitchTimer |-> glitchTimer,
     lostSignalAnimationId |-> lostSignalAnimationId,
     view |-> view, list |-> list, labelText |-> labelText,
     stateText |-> stateText, hudText |-> hudText, btnText |-> btnText,
     ariaLabel |-> ariaLabel,
     glitchShow |-> glitchShow, timers |-> timers, rafs |-> rafs,
     listeners |-> listeners, nextTimerId |-> nextTimerId,
     nextRafId |-> nextRafId, calls |-> << >>, threw |-> FALSE,
     logged |-> FALSE, noise |-> noise, now |-> now, pulse |-> pulse]

\* setTimeout(callback, delay): the new timer gets the id s.nextTimerId
SetTimeout(s, kind, cam, min, max, delayNum) ==
    [s EXCEPT !.timers = @ \cup {[id |-> s.nextTimerId, kind |-> kind,
                                  cam |-> cam, min |-> min, max |-> max,
                                  delayNum |-> delayNum, stale |-> FALSE]},
              !.nextTimerId = @ + 1,
              !.calls = Append(@, [fn |-> "setTimeout", id |-> s.nextTimerId,
                                   pending |-> TRUE])]

ClearTimeout(s, id) ==
    [s EXCEPT !.timers = {t \in @ : t.id # id},
              !.calls = Append(@, [fn |-> "clearTimeout", id |-> id,
                                   pending |-> \E t \in s.timers : t.id = id])]

\* requestAnimationFrame(drawNoise): the request gets the id s.nextRafId
RequestAnimationFrame(s, cam) ==
    [s EXCEPT !.rafs = @ \cup {[id |-> s.nextRafId, cam |-> cam,
                                stale |-> FALSE]},
              !.nextRafId = @ + 1,
              !.calls = Append(@, [fn |-> "requestAnimationFrame",
                                   id |-> s.nextRafId, pending |-> TRUE])]

CancelAnimationFrame(s, id) ==
    [s EXCEPT !.rafs = {r \in @ : r.id # id},
              !.calls = Append(@, [fn |-> "cancelAnimationFrame", id |-> id,
                                   pending |-> \E r \in s.rafs : r.id = id])]

\* a listener on a video element or, for "click", a once-listener on the
\* document
AddEventListener(s, kind, cam, stale) ==
    [s EXCEPT !.listeners = @ \cup {[kind |-> kind, cam |-> cam,
                                     stale |-> stale]}]

(***************************************************************************)
(* Lost-signal effect and glitch effect.                                   *)
(***************************************************************************)
\* stopLostSignalEffect that drops the handle without cancelling the request
stopLostSignalEffectNoCancel(s) == [s EXCEPT !.lostSignalAnimationId = 0]

stopLostSignalEffect(s) ==
    IF s.lostSignalAnimationId # 0
    THEN [CancelAnimationFrame(s, s.lostSignalAnimationId)
            EXCEPT !.lostSignalAnimationId = 0]
    ELSE s

Max(a, b) == IF a >= b THEN a ELSE b
Min(a, b) == IF a <= b THEN a ELSE b

\* viewEl.offsetWidth and viewEl.offsetHeight when the canvas is created: a
\* view that has no layout box has width 0
OffsetSize == [w |-> 0, h |-> 100]

\* n || dflt for an integer n
IntOr(n, dflt) == IF n = 0 THEN dflt ELSE n

\* the canvas of the LOST SIGNAL branch
Canvas == [width |-> IntOr(OffsetSize.w, 800),
           height |-> IntOr(OffsetSize.h, 600)]

\* Math.max(64, Math.floor(n * scale)) for scale = 0.28
SmallSize(n) == Max(64, (n * 28) \div 100)

\* the pixel of the low-resolution buffer whose four channels the model
\* follows; every pixel is computed by the same steps
Tracked == [x |-> 0, y |-> 0]

\* the closure before any call of startLostSignalEffect
NoNoise ==
    [cam |-> Null, w |-> 0, h |-> 0, smallW |-> 0, smallH |-> 0,
     last |-> 0, t |-> 0, prev |-> << >>, data |-> << >>,
     rendered |-> 0, blended |-> FALSE, hadPrev |-> FALSE,
     fresh |-> << >>]

\* startLostSignalEffect with prev kept outside the closure: a restart finds
\* the frame the loop before left
startLostSignalEffectKeepPrev(s, cam, canvas) ==
    LET s1 == stopLostSignalEffect(s)
        closure == [cam |-> cam, w |-> canvas.width, h |-> canvas.height,
                    smallW |-> SmallSize(canvas.width),
                    smallH |-> SmallSize(canvas.height),
                    last |-> 0, t |-> 0, prev |-> s.noise.prev,
                    data |-> << 0, 0, 0, 0 >>,
                    rendered |-> 0, blended |-> FALSE,
                    hadPrev |-> s.noise.prev # << >>,
                    fresh |-> << >>]
    IN  [RequestAnimationFrame(s1, cam)
           EXCEPT !.lostSignalAnimationId = s1.nextRafId,
                  !.noise = closure]

\* startLostSignalEffect(canvas): a new closure (buffer of zeros, last = 0,
\* t = 0, prev = null) and the first requestAnimationFrame; 'rendered'
\* counts the frames the loop has rendered, 'blended' tells whether the last
\* one was blended, 'hadPrev' whether the closure of the call before held a
\* previous frame
startLostSignalEffect(s, cam, canvas) ==
    LET s1 == stopLostSignalEffect(s)
        closure == [cam |-> cam, w |-> canvas.width, h |-> canvas.height,
                    smallW |-> SmallSize(canvas.width),
                    smallH |-> SmallSize(canvas.height),
                    last |-> 0, t |-> 0, prev |-> << >>,
                    data |-> << 0, 0, 0, 0 >>,
                    rendered |-> 0, blended |-> FALSE,
                    hadPrev |-> s.noise.prev # << >>,
                    fresh |-> << >>]
    IN  [RequestAnimationFrame(s1, cam)
           EXCEPT !.lostSignalAnimationId = s1.nextRafId,
                  !.noise = closure]

\* a signed 8-bit element: the rounded value wraps into -128..127
ToInt8(num, den, up) ==
    LET q == num \div den
        r == num % den
        n == IF 2 * r < den THEN q
             ELSE IF 2 * r > den THEN q + 1
             ELSE IF up THEN q + 1 ELSE q
    IN  ((n + 128) % 256) - 128

\* the value an element of a Uint8ClampedArray takes when num / den is
\* stored in it: rounded to the nearest integer and clamped to 0..255; 'up'
\* tells where a value halfway between two integers goes
ToUint8Clamped(num, den, up) ==
    LET q == num \div den
        r == num % den
        n == IF 2 * r < den THEN q
             ELSE IF 2 * r > den THEN q + 1
             ELSE IF up THEN q + 1 ELSE q
    IN  Max(0, Min(255, n))

\* exact halves are stored as the even neighbour
HalfEven(num, den) == (num \div den) % 2 = 1

\* drawNoise without the frame pacing
FrameDueAlways(time, last) == TRUE

\* now - last < frameInterval is false, for frameInterval = 1000 / fps and
\* fps = 24
FrameDue(time, last) == 24 * (time - last) >= 1000

\* base random static of one pixel for Math.random() = k / RandDen:
\* data[i] = data[i + 1] = data[i + 2] = 100 + Math.random() * 70,
\* data[i + 3] = 255
BaseNoise(k) ==
    LET num == 100 * RandDen + 70 * k
        base == ToUint8Clamped(num, RandDen, HalfEven(num, RandDen))
    IN  << base, base, base, ToUint8Clamped(255, 1, FALSE) >>

\* Math.floor((t * 20) % smallH) for t in milliseconds
BandY(t, smallH) == ((t * 20) \div 1000) % smallH

\* the band without the test of the row against the buffer
BandRowsUnchecked(t, smallH) ==
    (BandY(t, smallH) - 3) .. (BandY(t, smallH) + 2)

\* the rows the luminance band brightens
BandRows(t, smallH) ==
    {y \in (BandY(t, smallH) - 3) .. (BandY(t, smallH) + 2) :
        ~(y < 0 \/ y >= smallH)}

\* data[idx] = Math.min(255, data[idx] + 10) on the three colour channels
Brighten(px) ==
    << ToUint8Clamped(Min(255, px[1] + 10), 1, FALSE),
       ToUint8Clamped(Min(255, px[2] + 10), 1, FALSE),
       ToUint8Clamped(Min(255, px[3] + 10), 1, FALSE), px[4] >>

\* Math.floor((smallW * smallH) * 0.002)
Speckles(smallW, smallH) == (smallW * smallH * 2) \div 1000

\* a speckle at x = (Math.random() * smallW) | 0 and
\* y = (Math.random() * smallH) | 0 for the samples kx / RandDen, ky / RandDen
SpeckleAt(kx, ky, smallW, smallH) ==
    [x |-> (kx * smallW) \div RandDen, y |-> (ky * smallH) \div RandDen]

\* data[idx] = data[idx + 1] = data[idx + 2] = 255
White(px) ==
    << ToUint8Clamped(255, 1, FALSE), ToUint8Clamped(255, 1, FALSE),
       ToUint8Clamped(255, 1, FALSE), px[4] >>

\* the blend with the weights of the new and the previous frame exchanged
BlendSwapped(px, prev, up) ==
    IF prev # << >> /\ Len(prev) = Len(px)
    THEN << ToUint8Clamped(85 * px[1] + 15 * prev[1], 100, up),
            ToUint8Clamped(85 * px[2] + 15 * prev[2], 100, up),
            ToUint8Clamped(85 * px[3] + 15 * prev[3], 100, up), px[4] >>
    ELSE px

\* data[i] = data[i] * (1 - blend) + prev[i] * blend for blend = 0.85 on the
\* three colour channels, when prev holds a frame of the same length
Blend(px, prev, up) ==
    IF prev # << >> /\ Len(prev) = Len(px)
    THEN << ToUint8Clamped(15 * px[1] + 85 * prev[1], 100, up),
            ToUint8Clamped(15 * px[2] + 85 * prev[2], 100, up),
            ToUint8Clamped(15 * px[3] + 85 * prev[3], 100, up), px[4] >>
    ELSE px

\* stopGlitch that drops the handle without clearing the timer
stopGlitchNoClear(s) == [s EXCEPT !.glitchTimer = 0, !.glitchShow = FALSE]

\* stopGlitch that clears the timer but keeps its handle in glitchTimer
stopGlitchKeepHandle(s) ==
    LET s1 == IF s.glitchTimer # 0 THEN ClearTimeout(s, s.glitchTimer) ELSE s
    IN  [s1 EXCEPT !.glitchShow = FALSE]

stopGlitch(s) ==
    LET s1 == IF s.glitchTimer # 0
              THEN [ClearTimeout(s, s.glitchTimer) EXCEPT !.glitchTimer = 0]
              ELSE s
    IN  [s1 EXCEPT !.glitchShow = FALSE]

\* Math.random() * max + min: the delay without the subtraction of min
DelayNumNoSubtract(min, max, k) == k * max + min * RandDen

\* Math.random() * (max - min) + min for Math.random() = k / RandDen,
\* times RandDen
DelayNum(min, max, k) == k * (max - min) + min * RandDen

\* schedule(): glitchTimer = setTimeout(bump, delay)
schedule(s, cam, min, max, k) ==
    [SetTimeout(s, "glitch", cam, min, max, DelayNum(min, max, k))
       EXCEPT !.glitchTimer = s.nextTimerId]

triggerGlitch(s, cam, min, max, k) ==
    schedule(stopGlitch(s), cam, min, max, k)

\* bump that adds the class and schedules nothing
bumpOnce(s, cam, min, max, k) == [s EXCEPT !.glitchShow = TRUE]

\* bump that removes the class and does not add it again
bumpRemoveOnly(s, cam, min, max, k) ==
    schedule([s EXCEPT !.glitchShow = FALSE], cam, min, max, k)

\* bump(): the timer callback
bump(s, cam, min, max, k) ==
    schedule([s EXCEPT !.glitchShow = TRUE], cam, min, max, k)

(***************************************************************************)
(* loadScene.                                                              *)
(***************************************************************************)
\* what cameras[id] evaluates to when id is not an own key of cameras but a
\* property inherited from Object.prototype: an object without the fields
\* of a camera record
InheritedValue ==
    [id |-> Undefined, section |-> Undefined, location |-> Undefined,
     status |-> Undefined, distance |-> Undefined, hudText |-> Undefined,
     imageUrl |-> "", panEnabled |-> FALSE, panDuration |-> 0,
     glitchMinMs |-> 0, glitchMaxMs |-> 0]

\* cameras[id] is truthy
HasProperty(cams, id) == id \in DOMAIN cams \/ id \in InheritedKeys

GetProperty(cams, id) == IF id \in DOMAIN cams THEN cams[id] ELSE InheritedValue

\* node.textContent = v
TextContent(v) == IF v = Undefined THEN "" ELSE v

NoFeedUrl == "placehold.co/NO+CAMERA+FEED"
LoadErrorUrl == "placehold.co/IMAGE+LOAD+ERROR"

Element(tag, className, duration, src, alt) ==
    [tag |-> tag, className |-> className, animationPlayState |-> "",
     animationDuration |-> duration, src |-> src, alt |-> alt]

\* viewEl.innerHTML = ''
ClearView(s) == [s EXCEPT !.view = << >>]

\* a camera of the registry is selected: whatever is pending now was
\* registered for an earlier selection
BeginSession(s, isCamera) ==
    IF isCamera
    THEN [s EXCEPT !.timers = {[t EXCEPT !.stale = (t.kind # "assert")]
                                : t \in @},
                   !.rafs = {[r EXCEPT !.stale = TRUE] : r \in @},
                   !.listeners = {[l EXCEPT !.stale = TRUE] : l \in @}]
    ELSE s

\* the LOST SIGNAL branch without the start of the static animation
LostSignalBranchNoStart(s, id) ==
    [s EXCEPT !.view = Append(@, Element("DIV", "lost-signal-container",
                                         0, "", "")),
              !.panNode = 0]

\* the LOST SIGNAL branch: container with canvas and text overlay
LostSignalBranch(s, id) ==
    startLostSignalEffect(
        [s EXCEPT !.view = Append(@, Element("DIV", "lost-signal-container",
                                             0, "", "")),
                  !.panNode = 0], id, Canvas)

\* the video branch
VideoBranch(s, id, cam) ==
    LET video == Element("VIDEO", IF cam.panEnabled THEN "pan" ELSE "",
                         IF cam.panEnabled THEN cam.panDuration ELSE 0,
                         cam.imageUrl, "")
        s1 == AddEventListener(s, "error", id, FALSE)
        s2 == AddEventListener(s1, "loadedmetadata", id, FALSE)
        s3 == SetTimeout(s2, "play", id, 0, 0, 500 * RandDen)
    IN  [s3 EXCEPT !.panNode = Len(s3.view) + 1, !.view = Append(@, video)]

\* the image branch; img.onerror stays with the element
ImageBranch(s, id, cam) ==
    LET img == Element("IMG", IF cam.panEnabled THEN "pan" ELSE "",
                       IF cam.panEnabled THEN cam.panDuration ELSE 0,
                       StrOr(cam.imageUrl, NoFeedUrl), cam.location)
    IN  [s EXCEPT !.panNode = Len(s.view) + 1, !.view = Append(@, img)]

\* the reset that forgets the flag
ResetPanButtonKeepFlag(s, cam) ==
    LET s1 == [s EXCEPT !.btnText = "PAUSE PAN"]
    IN  IF s1.panNode # 0 /\ cam.panEnabled
        THEN [s1 EXCEPT !.view[s1.panNode].animationPlayState = "running"]
        ELSE s1

\* "Reset pan button state"
ResetPanButton(s, cam) ==
    LET s1 == [s EXCEPT !.panPaused = FALSE, !.btnText = "PAUSE PAN"]
    IN  IF s1.panNode # 0 /\ cam.panEnabled
        THEN [s1 EXCEPT !.view[s1.panNode].animationPlayState = "running"]
        ELSE s1

\* the rest of loadScene once the presentation is built and the labels set
FinishScene(s, id, cam, k) ==
    LET s1 == [s EXCEPT !.hudText = << cam.hudText, ToUpperCase(cam.id) >>,
                        !.list = [i \in DOMAIN s.list |->
                                    [s.list[i] EXCEPT !.active =
                                       (s.list[i].class = "cam"
                                        /\ s.list[i].id = id)]]]
        s2 == ResetPanButton(s1, cam)
        s3 == stopGlitch(s2)
        s4 == IF cam.status \in {"FLICKER", "INTERFERENCE", "LOST SIGNAL"}
              THEN triggerGlitch(s3, id, cam.glitchMinMs, cam.glitchMaxMs, k)
              ELSE s3
    IN  [s4 EXCEPT !.ariaLabel = << cam.location, cam.status >>]

\* loadScene(id); k / RandDen is what Math.random() returns
loadScene(s, cams, id, k) ==
    IF ~HasProperty(cams, id) THEN [s EXCEPT !.logged = TRUE]
    ELSE
      LET cam == GetProperty(cams, id)
          s1 == [BeginSession(s, id \in DOMAIN cams) EXCEPT !.activeId = id]
          s2 == ClearView(stopLostSignalEffect(s1))
          s3 == IF cam.status = "LOST SIGNAL" THEN LostSignalBranch(s2, id)
                ELSE IF IsVideoUrl(cam.imageUrl) THEN VideoBranch(s2, id, cam)
                ELSE ImageBranch(s2, id, cam)
          s4 == [s3 EXCEPT !.labelText = TextContent(cam.location),
                           !.stateText = TextContent(cam.status)]
      IN  IF cam.id = Undefined
          THEN [s4 EXCEPT !.threw = TRUE]  \* TypeError: cam.id.toUpperCase
          ELSE FinishScene(s4, id, cam, k)

(***************************************************************************)
(* Actions.                                                                *)
(***************************************************************************)
\* what ran last: the handler, its argument or owner, how it ended, whether
\* the callback was registered for an earlier selection, and the pan flag
\* and active id it found
Op(op, id, result, stale) ==
    [op |-> op, id |-> id, result |-> result, stale |-> stale,
     prePaused |-> panPaused, preActive |-> activeId]

\* the session record s becomes the next state
Commit(s, op) ==
    /\ pc # "unloaded"
    /\ s.nextTimerId <= MaxTimerId + 1
    /\ s.nextRafId <= MaxRafId + 1
    /\ activeId' = s.activeId
    /\ panPaused' = s.panPaused
    /\ panNode' = s.panNode
    /\ glitchTimer' = s.glitchTimer
    /\ lostSignalAnimationId' = s.lostSignalAnimationId
    /\ view' = s.view
    /\ list' = s.list
    /\ labelText' = s.labelText
    /\ stateText' = s.stateText
    /\ hudText' = s.hudText
    /\ btnText' = s.btnText
    /\ ariaLabel' = s.ariaLabel
    /\ glitchShow' = s.glitchShow
    /\ timers' = s.timers
    /\ rafs' = s.rafs
    /\ listeners' = s.listeners
    /\ nextTimerId' = s.nextTimerId
    /\ nextRafId' = s.nextRafId
    /\ calls' = s.calls
    /\ lastOp' = op
    /\ noise' = s.noise
    /\ now' = s.now
    /\ pulse' = s.pulse
    /\ UNCHANGED pages

Result(s) == IF s.threw THEN "threw" ELSE IF s.logged THEN "notfound" ELSE "ok"

\* a click anywhere bubbles to the document: its once-listeners run
\* (video.play()) and are removed
documentClick(s) == [s EXCEPT !.listeners = {l \in @ : l.kind # "click"}]

showLoadingState(s) ==
    [s EXCEPT !.list = Message("Loading cameras..."),
              !.labelText = "-", !.stateText = "-"]

\* a catch block that only writes the console
showErrorStateLogOnly(s, message) == s

showErrorState(s, message) == [s EXCEPT !.list = Message(message)]

\* initialize(), after loadCameras has settled: the runtime assertions
ScheduleAssertions(s) == SetTimeout(s, "assert", Null, 0, 0, 1200 * RandDen)

\* initialize() up to the await of the fetch
Initialize ==
    /\ pc = "start"
    /\ pc' = "loading"
    /\ Commit(showLoadingState(Cur), Op("initialize", Null, "ok", FALSE))
    /\ UNCHANGED << cameras, cameraKeys, sections, camEntries >>

\* the values Math.random() takes in loadScene(id): it is called only when a
\* glitch is scheduled
Randoms(cams, id) ==
    IF id \in DOMAIN cams
       /\ cams[id].status \in {"FLICKER", "INTERFERENCE", "LOST SIGNAL"}
    THEN RandSamples ELSE {0}

\* the registry as loadCameras finds it
Registry ==
    [cameras |-> cameras, keys |-> cameraKeys, sections |-> sections,
     threw |-> FALSE]

\* the fetch returned a header row and the data rows 'entries'; an exception
\* in the forEach is caught and shown as the error state
FetchRows(entries, k) ==
    /\ pc = "loading"
    /\ pc' = "ready"
    /\ LET reg == StoreEntries(entries, Registry)
           s1 == [Cur EXCEPT !.list = RenderCameraList(reg.sections)]
           s2 == IF reg.threw
                 THEN showErrorState(Cur, "Failed to load cameras")
                 ELSE IF reg.keys # << >>
                 THEN loadScene(s1, reg.cameras, reg.keys[1], k)
                 ELSE s1
       IN  /\ cameras' = reg.cameras
           /\ cameraKeys' = reg.keys
           /\ sections' = reg.sections
           /\ camEntries' = entries
           /\ Commit(ScheduleAssertions(s2),
                     Op("loadCameras", Null,
                        IF reg.threw THEN "error" ELSE Result(s2), FALSE))

\* the values Math.random() takes in loadCameras for the rows 'entries'
FetchRandoms(entries) ==
    LET reg == StoreEntries(entries, Registry)
    IN  IF reg.threw \/ reg.keys = << >> THEN {0}
        ELSE Randoms(reg.cameras, reg.keys[1])

\* the fetch returned no rows at all
FetchNoRows ==
    /\ pc = "loading"
    /\ pc' = "ready"
    /\ Commit(ScheduleAssertions(
                 showErrorState(Cur, "No camera data found in Cams sheet")),
              Op("loadCameras", Null, "norows", FALSE))
    /\ UNCHANGED << cameras, cameraKeys, sections, camEntries >>

\* the fetch threw
FetchFailed ==
    /\ pc = "loading"
    /\ pc' = "ready"
    /\ Commit(ScheduleAssertions(
                 showErrorState(Cur, "Failed to load cameras")),
              Op("loadCameras", Null, "error", FALSE))
    /\ UNCHANGED << cameras, cameraKeys, sections, camEntries >>

\* loadScene(id) is called
LoadScene(id, k) ==
    /\ LET s == loadScene(Cur, cameras, id, k)
       IN  Commit(s, Op("loadScene", id, Result(s), FALSE))
    /\ UNCHANGED << pc, cameras, cameraKeys, sections, camEntries >>

\* click on the i-th child of #list
ClickList(i, k) ==
    /\ i \in DOMAIN list
    /\ list[i].class = "cam"
    /\ LET s == loadScene(Cur, cameras, list[i].id, k)
       IN  Commit(documentClick(s), Op("click", list[i].id, Result(s), FALSE))
    /\ UNCHANGED << pc, cameras, cameraKeys, sections, camEntries >>

\* a toggle that also stops the glitch of the camera on display
togglePanStopGlitch(s) ==
    LET paused == ~s.panPaused
        s1 == stopGlitch([s EXCEPT !.panPaused = paused])
        s2 == IF s1.panNode # 0
              THEN [s1 EXCEPT !.view[s1.panNode].animationPlayState =
                                 IF paused THEN "paused" ELSE "running"]
              ELSE s1
    IN  [s2 EXCEPT !.btnText = IF paused THEN "RESUME PAN" ELSE "PAUSE PAN"]

\* a toggle that attaches the sweep to the node it resumes
togglePanAttach(s) ==
    LET paused == ~s.panPaused
        s1 == [s EXCEPT !.panPaused = paused]
        s2 == IF s1.panNode # 0
              THEN [s1 EXCEPT !.view[s1.panNode].animationPlayState =
                                 IF paused THEN "paused" ELSE "running",
                              !.view[s1.panNode].className =
                                 IF paused THEN @ ELSE "pan"]
              ELSE s1
    IN  [s2 EXCEPT !.btnText = IF paused THEN "RESUME PAN" ELSE "PAUSE PAN"]

\* the click handler of #togglePan
togglePan(s) ==
    LET paused == ~s.panPaused
        s1 == [s EXCEPT !.panPaused = paused]
        s2 == IF s1.panNode # 0
              THEN [s1 EXCEPT !.view[s1.panNode].animationPlayState =
                                 IF paused THEN "paused" ELSE "running"]
              ELSE s1
    IN  [s2 EXCEPT !.btnText = IF paused THEN "RESUME PAN" ELSE "PAUSE PAN"]

TogglePan ==
    /\ Commit(documentClick(togglePan(Cur)), Op("togglePan", Null, "ok", FALSE))
    /\ UNCHANGED << pc, cameras, cameraKeys, sections, camEntries >>

\* a click elsewhere in the document
DocumentClick ==
    /\ \E l \in listeners : l.kind = "click"
    /\ Commit(documentClick(Cur), Op("documentClick", Null, "ok", FALSE))
    /\ UNCHANGED << pc, cameras, cameraKeys, sections, camEntries >>

\* a pending glitch timer fires: bump()
GlitchTimerFires(t, k) ==
    /\ t \in timers
    /\ t.kind = "glitch"
    /\ Commit(bump([Cur EXCEPT !.timers = @ \ {t}], t.cam, t.min, t.max, k),
              Op("bump", t.cam, "ok", t.stale))
    /\ UNCHANGED << pc, cameras, cameraKeys, sections, camEntries >>

\* a pending glitch timer fires and the browser gives the timer that bump
\* sets the id of the one that fired: an id is any positive integer no
\* active timer has, and the script only stores it and passes it back to
\* clearTimeout
GlitchTimerRefires(t, k) ==
    /\ t \in timers
    /\ t.kind = "glitch"
    /\ LET s1 == bump([Cur EXCEPT !.timers = @ \ {t}, !.nextTimerId = t.id],
                      t.cam, t.min, t.max, k)
       IN  Commit([s1 EXCEPT !.nextTimerId = nextTimerId,
                             !.pulse = 1 - pulse],
                  Op("bump", t.cam, "ok", t.stale))
    /\ UNCHANGED << pc, cameras, cameraKeys, sections, camEntries >>

\* the 500 ms timer of a video fires: if (video.paused) video.play()
PlayTimerFires(t) ==
    /\ t \in timers
    /\ t.kind = "play"
    /\ Commit([Cur EXCEPT !.timers = @ \ {t}], Op("play", t.cam, "ok", t.stale))
    /\ UNCHANGED << pc, cameras, cameraKeys, sections, camEntries >>

\* the runtime assertions of initialize run
AssertTimerFires(t) ==
    /\ t \in timers
    /\ t.kind = "assert"
    /\ Commit([Cur EXCEPT !.timers = @ \ {t}],
              Op("assert", Null,
                 IF /\ \E i \in DOMAIN view : view[i].tag = "IMG"
                    /\ \E i \in DOMAIN list : list[i].active
                 THEN "ok" ELSE "failed", FALSE))
    /\ UNCHANGED << pc, cameras, cameraKeys, sections, camEntries >>

\* drawNoise(now) for now = s.now: the frame is skipped, or rendered into the
\* buffer (of which the model keeps the pixel Tracked), and the next frame
\* is requested; in.k, in.kx and in.ky are samples of Math.random(), in.up
\* the direction in which the blend rounds an exact half
drawNoise(s, cam, in) ==
    LET n == s.noise
        s1 == [RequestAnimationFrame(s, cam)
                 EXCEPT !.lostSignalAnimationId = s.nextRafId]
    IN  IF ~FrameDue(s.now, n.last) THEN s1
        ELSE
          LET t == n.t + (s.now - n.last)
              base == BaseNoise(in.k)
              banded == IF Tracked.y \in BandRows(t, n.smallH)
                        THEN Brighten(base) ELSE base
              speckled ==
                  IF /\ Speckles(n.smallW, n.smallH) > 0
                     /\ SpeckleAt(in.kx, in.ky, n.smallW, n.smallH) = Tracked
                  THEN White(banded) ELSE banded
              data == Blend(speckled, n.prev, in.up)
          IN  [s1 EXCEPT !.noise =
                 [n EXCEPT !.last = s.now, !.t = t, !.data = data,
                           !.prev = data, !.rendered = @ + 1,
                           !.fresh = speckled,
                           !.blended = (n.prev # << >>
                                        /\ Len(n.prev) = Len(speckled))]]

\* the samples a frame of the view draws: a 42 ms frame gap
FrameInputs ==
    {[gap |-> 42, k |-> 0, kx |-> RandDen - 1, ky |-> RandDen - 1,
      up |-> FALSE]}

\* the gaps between animation frames, in ms: just below and just above
\* 1000 / 24, and a throttled frame
FrameGaps == {41, 42, 120}

\* the samples a frame draws: the gap, Math.random() for the base noise of
\* the followed pixel and for a speckle, and the rounding of a half
NoiseFrameInputs ==
    {[gap |-> g, k |-> k, kx |-> c, ky |-> c, up |-> u] :
        g \in FrameGaps, k \in RandSamples, c \in RandSamples,
        u \in BOOLEAN}

\* a pending animation-frame request is served in.gap ms after the last one
AnimationFrame(r, in) ==
    /\ r \in rafs
    /\ Commit(drawNoise([Cur EXCEPT !.rafs = @ \ {r}, !.now = @ + in.gap],
                        r.cam, in),
              Op("drawNoise", r.cam, "ok", r.stale))
    /\ UNCHANGED << pc, cameras, cameraKeys, sections, camEntries >>

\* the load of a video settles: 'error', or 'loadedmetadata' followed by
\* play() resolving ("played") or rejecting ("rejected")
VideoSettles(l, outcome) ==
    /\ l \in listeners
    /\ l.kind = "loadedmetadata"
    /\ LET s1 == [Cur EXCEPT !.listeners =
                     @ \ {l, [l EXCEPT !.kind = "error"]}]
           s2 == IF outcome = "rejected"
                 THEN AddEventListener(s1, "click", l.cam, l.stale)
                 ELSE s1
       IN  Commit(s2, Op("video", l.cam, outcome, l.stale))
    /\ UNCHANGED << pc, cameras, cameraKeys, sections, camEntries >>

\* the image in the view fails to load: img.onerror
ImageError ==
    /\ panNode # 0
    /\ view[panNode].tag = "IMG"
    /\ view[panNode].src # LoadErrorUrl
    /\ Commit([Cur EXCEPT !.view[panNode].src = LoadErrorUrl],
              Op("onerror", activeId, "ok", FALSE))
    /\ UNCHANGED << pc, cameras, cameraKeys, sections, camEntries >>

\* the page is hidden or unloaded ('pagehide', 'beforeunload', 'unload'): the
\* script registers no listener for any of them, so none of its code runs;
\* no callback of the page runs afterwards
Unload ==
    /\ pc # "unloaded"
    /\ pc' = "unloaded"
    /\ UNCHANGED << cameras, cameraKeys, sections, camEntries, activeId,
                    panPaused,
                    panNode, glitchTimer, lostSignalAnimationId, view, list,
                    labelText, stateText, hudText, btnText, ariaLabel,
                    glitchShow, timers, rafs, listeners, nextTimerId,
                    nextRafId, calls, lastOp, noise, now, pulse, pages >>

(***************************************************************************)
(* Personnel directory (unnamed/part_001): the directory table, the record *)
(* views and the password prompt of confidential records.                  *)
(***************************************************************************)
\* String.prototype.trim on the texts typed into the password input
Trim(text) ==
    CASE text = " ALPHA-PRIME " -> "ALPHA-PRIME"
      [] text = " OMEGA " -> "OMEGA"
      [] OTHER -> text

\* password.replace(/'/g, "\\'")
EscapeQuotes(text) ==
    CASE text = "O'NEIL" -> "O\\'NEIL"
      [] OTHER -> text

\* the value of the string literal '<text>' of the row's inline handler, as
\* the script parser reads it: a backslash escapes the character after it
JsStringLiteral(text) ==
    CASE text = "O\\'NEIL" -> "O'NEIL"
      [] text = "A\\B" -> "AB"
      [] OTHER -> text

DirEntry(personnelid, isconfidential, password) ==
    [personnelid |-> personnelid, isconfidential |-> isconfidential,
     password |-> password]

\* rows of the PersonnelDirectory sheet, as parseSheetData returns them
PersonnelDirectory ==
    << DirEntry("thorne-a", "true", "ALPHA-PRIME"),
       DirEntry("vance-k", "", ""),
       DirEntry("reyes-m", "TRUE", ""),
       DirEntry("kim-j", "false", "OMEGA-7"),
       DirEntry("ghost-x", "true", "ALPHA-PRIME"),
       DirEntry("okoye-d", "true", " OMEGA "),
       DirEntry("lund-e", "TRUE", "A\\B"),
       DirEntry("oneil-j", "true", "O'NEIL"),
       DirEntry("constructor", "true", "ALPHA-PRIME") >>

\* personnelid column of the PersonnelRecords sheet
PersonnelRecords ==
    << "thorne-a", "vance-k", "", "reyes-m", "kim-j", "okoye-d", "lund-e",
       "oneil-j", "thorne-a" >>

\* the texts a user types into the password input
PasswordEntries ==
    {"ALPHA-PRIME", " ALPHA-PRIME ", "alpha-prime", " OMEGA ", "OMEGA",
     "A\\B", "AB", "O'NEIL", ""}

PersonnelInit ==
    [load |-> "start", directory |-> "idle", records |-> "idle",
     entries |-> << >>, rows |-> << >>, tableMessage |-> "",
     personnelRecordData |-> {}, personnelRecordViews |-> << >>,
     directoryHidden |-> FALSE, modalHidden |-> TRUE, errorHidden |-> TRUE,
     inputValue |-> "",
     pendingAccessPersonnelId |-> Null, pendingAccessPassword |-> Null,
     last |-> [op |-> "none", row |-> 0, entered |-> ""]]

\* the rows of the directory table: each carries the arguments of its inline
\* handler openPersonnelRecord('<id>', <isConfidential>, '<password>')
PersonnelRenderDirectoryTable(p, entries) ==
    IF entries = << >>
    THEN [p EXCEPT !.rows = << >>,
                   !.tableMessage = "No personnel records found"]
    ELSE [p EXCEPT
            !.tableMessage = "",
            !.rows = [i \in DOMAIN entries |->
                [class |-> "clickable-row",
                 personnelId |->
                     JsStringLiteral(StrOr(entries[i].personnelid, "")),
                 isConfidential |->
                     entries[i].isconfidential \in {"true", "TRUE"},
                 password |->
                     JsStringLiteral(
                         EscapeQuotes(StrOr(entries[i].password, "")))]]]

\* personnelRecordData[personnelId] is truthy
HasRecord(p, personnelId) ==
    personnelId \in p.personnelRecordData \/ personnelId \in InheritedKeys

RECURSIVE RecordKeys(_, _)
\* the keys of personnelRecordData after storing the ids, in insertion order
RecordKeys(ids, keys) ==
    IF ids = << >> THEN keys
    ELSE RecordKeys(Tail(ids),
            IF Head(ids) = "" \/ \E i \in DOMAIN keys : keys[i] = Head(ids)
            THEN keys ELSE Append(keys, Head(ids)))

\* loadPersonnelRecords after the fetch, with generatePersonnelRecordViews
StoreRecords(p, ids) ==
    LET keys == RecordKeys(ids, << >>) IN
    [p EXCEPT
       !.personnelRecordData = {keys[i] : i \in DOMAIN keys},
       !.personnelRecordViews =
           @ \o [i \in DOMAIN keys |-> [id |-> keys[i], hidden |-> TRUE]]]

showPersonnelRecord(p, personnelId) ==
    IF \E i \in DOMAIN p.personnelRecordViews :
          p.personnelRecordViews[i].id = personnelId
    THEN [p EXCEPT
            !.directoryHidden = TRUE,
            !.personnelRecordViews =
                [i \in DOMAIN @ |->
                    [id |-> @[i].id, hidden |-> @[i].id # personnelId]]]
    ELSE p

\* the focus of the input, set 100 ms later, is no state of the model
showPasswordPrompt(p, personnelId, password) ==
    [p EXCEPT !.pendingAccessPersonnelId = personnelId,
              !.pendingAccessPassword = password,
              !.inputValue = "",
              !.errorHidden = TRUE,
              !.modalHidden = FALSE]

openPersonnelRecord(p, personnelId, isConfidential, password) ==
    IF ~HasRecord(p, personnelId) THEN p
    ELSE IF isConfidential /\ password # ""
         THEN showPasswordPrompt(p, personnelId, password)
         ELSE showPersonnelRecord(p, personnelId)

\* submitPassword without the two assignments after showPersonnelRecord
submitPasswordKeepPending(p) ==
    IF Trim(p.inputValue) = p.pendingAccessPassword
    THEN showPersonnelRecord([p EXCEPT !.modalHidden = TRUE],
                             p.pendingAccessPersonnelId)
    ELSE [p EXCEPT !.errorHidden = FALSE, !.inputValue = ""]

submitPassword(p) ==
    LET enteredPassword == Trim(p.inputValue) IN
    IF enteredPassword = p.pendingAccessPassword
    THEN [showPersonnelRecord([p EXCEPT !.modalHidden = TRUE],
                              p.pendingAccessPersonnelId)
            EXCEPT !.pendingAccessPersonnelId = Null,
                   !.pendingAccessPassword = Null]
    ELSE [p EXCEPT !.errorHidden = FALSE, !.inputValue = ""]

cancelPasswordPrompt(p) ==
    [p EXCEPT !.modalHidden = TRUE,
              !.pendingAccessPersonnelId = Null,
              !.pendingAccessPassword = Null]

PersonnelGoBack(p) ==
    [p EXCEPT !.personnelRecordViews =
                  [i \in DOMAIN @ |-> [id |-> @[i].id, hidden |-> TRUE]],
              !.directoryHidden = FALSE]

\* the personnel page record p becomes the next state
PersonnelCommit(p, op, row, entered) ==
    /\ personnel' = [p EXCEPT !.last =
                        [op |-> op, row |-> row, entered |-> entered]]
    /\ UNCHANGED << viewVars, files, maintenance, buffer, footer >>

\* initialize() up to the await of fetchSheetMetadata
PersonnelInitialize ==
    /\ personnel.load = "start"
    /\ PersonnelCommit([personnel EXCEPT !.load = "metadata"],
                       "initialize", 0, "")

\* fetchSheetMetadata resolved: the title is set, then loadDirectory and
\* loadPersonnelRecords both start and run up to their fetch
PersonnelMetadataLoaded ==
    /\ personnel.load = "metadata"
    /\ PersonnelCommit([personnel EXCEPT
                           !.load = "loading",
                           !.directory = "loading",
                           !.records = "loading",
                           !.rows = << >>,
                           !.tableMessage = "Loading personnel directory..."],
                       "metadata", 0, "")

\* fetchSheetMetadata rejected: initialize ends there
PersonnelMetadataFailed ==
    /\ personnel.load = "metadata"
    /\ PersonnelCommit([personnel EXCEPT !.load = "failed"],
                       "metadataFailed", 0, "")

\* loadDirectory after its fetch resolved with a header and the rows entries
DirectoryLoaded(entries) ==
    /\ personnel.directory = "loading"
    /\ PersonnelCommit(
           PersonnelRenderDirectoryTable(
               [personnel EXCEPT !.directory = "done", !.entries = entries],
               entries),
           "loadDirectory", 0, "")

\* loadDirectory after its fetch resolved with no rows or rejected
DirectoryFailed(message) ==
    /\ personnel.directory = "loading"
    /\ PersonnelCommit([personnel EXCEPT !.directory = "done",
                                         !.rows = << >>,
                                         !.tableMessage = message],
                       "loadDirectoryFailed", 0, "")

\* loadPersonnelRecords after its fetch resolved with the rows ids
RecordsLoaded(ids) ==
    /\ personnel.records = "loading"
    /\ PersonnelCommit(StoreRecords([personnel EXCEPT !.records = "done"],
                                    ids),
                       "loadPersonnelRecords", 0, "")

\* loadPersonnelRecords after its fetch resolved with no rows or rejected:
\* only the console is written
RecordsFailed ==
    /\ personnel.records = "loading"
    /\ PersonnelCommit([personnel EXCEPT !.records = "done"],
                       "loadPersonnelRecordsFailed", 0, "")

\* a click on row i of the directory table
ClickRow(i) ==
    /\ i \in DOMAIN personnel.rows
    /\ PersonnelCommit(
           openPersonnelRecord(personnel, personnel.rows[i].personnelId,
                               personnel.rows[i].isConfidential,
                               personnel.rows[i].password),
           "openPersonnelRecord", i, "")

\* the user types text into the password input and submits it with the
\* button or the Enter key
SubmitPassword(text) ==
    /\ PersonnelCommit(submitPassword([personnel EXCEPT !.inputValue = text]),
                       "submitPassword", 0, text)

CancelPasswordPrompt ==
    PersonnelCommit(cancelPasswordPrompt(personnel),
                    "cancelPasswordPrompt", 0, "")

GoBack ==
    PersonnelCommit(PersonnelGoBack(personnel), "goBack", 0, "")

(***************************************************************************)
(* File browser (unnamed/part_000): the directory table and the file       *)
(* content views.                                                          *)
(***************************************************************************)
\* String.prototype.toLowerCase on the status texts of the sheets
ToLowerCase(text) ==
    CASE text = "LOCKED" -> "locked"
      [] text = "Corrupted" -> "corrupted"
      [] text = "NOMINAL" -> "nominal"
      [] text = "Warning" -> "warning"
      [] text = "CRITICAL" -> "critical"
      [] text = "FAILURE" -> "failure"
      [] text = "OFFLINE" -> "offline"
      [] OTHER -> text

\* fileid column of the Directory sheet, by row
FileIds == << "readme", "container", "constructor", "log-1" >>

FileEntry(isclickable, status, rowclass) ==
    [isclickable |-> isclickable, status |-> status, rowclass |-> rowclass]

\* the isclickable, status and rowclass cells a row of the sheet may hold
FileEntries ==
    {FileEntry(c, st, "") :
        c \in {"true", "TRUE", "false", ""},
        st \in {"", "locked", "LOCKED", "Corrupted", "system"}}
    \cup {FileEntry("true", "", "dim"), FileEntry("True", "normal", "")}

RECURSIVE FileSheetsOf(_)
FileSheetsOf(n) ==
    IF n = 0 THEN {<< >>}
    ELSE {Append(sheet, e) : sheet \in FileSheetsOf(n - 1), e \in FileEntries}

\* rows of the Directory sheet, as parseSheetData returns them
FileSheets == UNION {FileSheetsOf(n) : n \in 0..MaxFileRows}

\* fileid column of the Content sheet
FileContents == << "readme", "", "container", "readme" >>

FilesInit ==
    [load |-> "start", directory |-> "idle", content |-> "idle",
     entries |-> << >>, rows |-> << >>, tableMessage |-> "",
     fileContentData |-> {}, fileContentViews |-> << >>,
     directoryHidden |-> FALSE,
     last |-> [op |-> "none", row |-> 0]]

\* the class attribute: the non-empty class names, in order
ClassNames(names) == SelectSeq(names, LAMBDA name : name # "")

CanOpenIgnoringStatus(isClickable, status) == isClickable

\* isClickable && status !== 'locked' && status !== 'corrupted'
CanOpen(isClickable, status) ==
    isClickable /\ status # "locked" /\ status # "corrupted"

\* one row of the table, built from entry i of the sheet
FileRow(entry, fileid) ==
    LET fileId == StrOr(fileid, "")
        isClickable == entry.isclickable \in {"true", "TRUE"}
        status == ToLowerCase(StrOr(entry.status, "normal"))
        textClass == IF status = "corrupted" THEN "text-red-500"
                     ELSE IF status \in {"locked", "system"}
                          THEN "text-neutral-500" ELSE ""
    IN [class |-> ClassNames(<< entry.rowclass,
                                IF CanOpen(isClickable, status)
                                THEN "clickable-row" ELSE "",
                                textClass >>),
        iconClass |-> IF textClass = "" THEN "text-primary-yellow"
                      ELSE textClass,
        onclick |-> IF CanOpen(isClickable, status)
                    THEN JsStringLiteral(fileId) ELSE Null]

FilesRenderDirectoryTable(f, entries) ==
    IF entries = << >>
    THEN [f EXCEPT !.rows = << >>,
                   !.tableMessage = "No files found in directory"]
    ELSE [f EXCEPT !.tableMessage = "",
                   !.rows = [i \in DOMAIN entries |->
                                FileRow(entries[i], FileIds[i])]]

\* loadContent after the fetch, with generateFileContentViews
StoreContents(f, ids) ==
    LET keys == RecordKeys(ids, << >>) IN
    [f EXCEPT
       !.fileContentData = {keys[i] : i \in DOMAIN keys},
       !.fileContentViews =
           @ \o [i \in DOMAIN keys |-> [id |-> keys[i], hidden |-> TRUE]]]

\* document.getElementById('file-content-' + fileId), the first element of
\* that id in tree order: #file-content-container holds the views appended
\* to it and so comes before the view of the fileId 'container'
FileViewElement(f, fileId) ==
    IF fileId = "container" THEN "container"
    ELSE IF \E i \in DOMAIN f.fileContentViews :
               f.fileContentViews[i].id = fileId
         THEN "view" ELSE Null

\* the views whose id differs from that of the element found are hidden and
\* the element found loses the class hidden, which the container never has
openFile(f, fileId) ==
    IF ~(fileId \in f.fileContentData \/ fileId \in InheritedKeys) THEN f
    ELSE IF FileViewElement(f, fileId) = Null THEN f
    ELSE [f EXCEPT
            !.directoryHidden = TRUE,
            !.fileContentViews =
                [i \in DOMAIN @ |->
                    [id |-> @[i].id,
                     hidden |->
                         IF @[i].id # fileId THEN TRUE
                         ELSE IF FileViewElement(f, fileId) = "view"
                              THEN FALSE ELSE @[i].hidden]]]

FilesGoBack(f) ==
    [f EXCEPT !.fileContentViews =
                  [i \in DOMAIN @ |-> [id |-> @[i].id, hidden |-> TRUE]],
              !.directoryHidden = FALSE]

\* the file browser record f becomes the next state
FilesCommit(f, op, row) ==
    /\ files' = [f EXCEPT !.last = [op |-> op, row |-> row]]
    /\ UNCHANGED << viewVars, personnel, maintenance, buffer, footer >>

\* initialize() up to the await of fetchSheetMetadata
FilesInitialize ==
    /\ files.load = "start"
    /\ FilesCommit([files EXCEPT !.load = "metadata"], "initialize", 0)

\* fetchSheetMetadata resolved: loadDirectory and loadContent both start and
\* run up to their fetch
FilesMetadataLoaded ==
    /\ files.load = "metadata"
    /\ FilesCommit([files EXCEPT !.load = "loading",
                                 !.directory = "loading",
                                 !.content = "loading",
                                 !.rows = << >>,
                                 !.tableMessage = "Loading directory..."],
                   "metadata", 0)

\* fetchSheetMetadata rejected: initialize ends there
FilesMetadataFailed ==
    /\ files.load = "metadata"
    /\ FilesCommit([files EXCEPT !.load = "failed"], "metadataFailed", 0)

\* loadDirectory after its fetch resolved with a header and the rows entries
FilesDirectoryLoaded(entries) ==
    /\ files.directory = "loading"
    /\ FilesCommit(
           FilesRenderDirectoryTable(
               [files EXCEPT !.directory = "done", !.entries = entries],
               entries),
           "loadDirectory", 0)

\* loadDirectory after its fetch resolved with no rows or rejected
FilesDirectoryFailed(message) ==
    /\ files.directory = "loading"
    /\ FilesCommit([files EXCEPT !.directory = "done", !.rows = << >>,
                                 !.tableMessage = message],
                   "loadDirectoryFailed", 0)

\* loadContent after its fetch resolved with the rows ids
ContentLoaded(ids) ==
    /\ files.content = "loading"
    /\ FilesCommit(StoreContents([files EXCEPT !.content = "done"], ids),
                   "loadContent", 0)

\* loadContent after its fetch resolved with no rows or rejected
ContentFailed ==
    /\ files.content = "loading"
    /\ FilesCommit([files EXCEPT !.content = "done"], "loadContentFailed", 0)

\* a click on row i of the directory table runs its inline handler, if any
ClickFileRow(i) ==
    /\ i \in DOMAIN files.rows
    /\ files.rows[i].onclick # Null
    /\ FilesCommit(openFile(files, files.rows[i].onclick), "openFile", i)

FilesBack ==
    FilesCommit(FilesGoBack(files), "goBack", 0)

(***************************************************************************)
(* Maintenance log (js/maintenance-log.js): the log table and the page     *)
(* header filled from the optional Metadata sheet.                         *)
(***************************************************************************)
LogEntry(status, statusclass, colspan) ==
    [status |-> status, statusclass |-> statusclass, colspan |-> colspan]

\* the status, statusclass and colspan cells a row of the Maintenance sheet
\* may hold
LogEntries ==
    {LogEntry(st, "", "") :
        st \in {"NOMINAL", "Warning", "CRITICAL", "FAILURE", "OFFLINE", ""}}
    \cup {LogEntry("NOMINAL", "text-blue-400", ""), LogEntry("", "", "4")}

RECURSIVE LogSheetsOf(_)
LogSheetsOf(n) ==
    IF n = 0 THEN {<< >>}
    ELSE {Append(sheet, e) : sheet \in LogSheetsOf(n - 1), e \in LogEntries}

\* rows of the Maintenance sheet under its header, as parseSheetData returns
\* them
LogSheets == UNION {LogSheetsOf(n) : n \in 0..MaxLogRows}

\* rows of the Metadata sheet under its header
MetadataSheets ==
    {<< [key |-> "title", value |-> "REACTOR LOG"],
        [key |-> "", value |-> "orphan"],
        [key |-> "statusText", value |-> ""] >>,
     << [key |-> "assignedTech", value |-> "K. VANCE"] >>,
     << >>}

\* the keys updatePageMetadata reads
MetadataKeys ==
    {"title", "component", "statusText", "statusSubtext", "componentId",
     "lastServiced", "assignedTech"}

RECURSIVE StoreMetadata(_, _)
\* pageMetadata[key] = value for the entries with a key, in order
StoreMetadata(entries, meta) ==
    IF entries = << >> THEN meta
    ELSE StoreMetadata(Tail(entries),
            IF Head(entries).key = "" THEN meta
            ELSE MapPut(meta, Head(entries).key,
                        StrOr(Head(entries).value, "")))

\* the header elements take the values of pageMetadata that are not empty
updatePageMetadata(m) ==
    [m EXCEPT !.header =
        [k \in MetadataKeys |->
            IF k \in DOMAIN m.pageMetadata /\ m.pageMetadata[k] # ""
            THEN m.pageMetadata[k] ELSE @[k]]]

MaintenanceInit ==
    [load |-> "start", metadata |-> "idle", log |-> "idle",
     entries |-> << >>, pageMetadata |-> EmptyMap,
     header |-> [k \in MetadataKeys |-> "static"],
     table |-> [kind |-> "static", rows |-> << >>, message |-> ""],
     last |-> "none"]

LogShowLoadingState(m) ==
    [m EXCEPT !.table = [kind |-> "loading", rows |-> << >>,
                         message |-> "Loading maintenance log..."]]

LogShowErrorState(m, message) ==
    [m EXCEPT !.table = [kind |-> "error", rows |-> << >>,
                         message |-> message]]

\* one row of the log table
LogRow(entry) ==
    IF entry.colspan = "4"
    THEN [kind |-> "message", status |-> "", statusClass |-> ""]
    ELSE LET statusLower == ToLowerCase(entry.status)
         IN [kind |-> "entry", status |-> entry.status,
             statusClass |->
                 IF entry.statusclass = "" /\ entry.status # ""
                 THEN CASE statusLower = "nominal" -> "text-green-400"
                        [] statusLower = "warning" -> "text-yellow-400"
                        [] statusLower \in {"critical", "failure"} ->
                               "text-red-500"
                        [] OTHER -> ""
                 ELSE entry.statusclass]

renderLogTable(m, entries) ==
    IF entries = << >>
    THEN [m EXCEPT !.table = [kind |-> "rows", rows |-> << >>,
                              message |-> "No log entries found"]]
    ELSE [m EXCEPT !.table =
             [kind |-> "rows",
              rows |-> [i \in DOMAIN entries |-> LogRow(entries[i])],
              message |-> ""]]

loadMetadataCatchShown(m) ==
    LogShowErrorState(m, "Failed to load metadata")

\* the catch of loadMetadata, and its branch for no rows: a console warning
loadMetadataCatch(m) == m

\* the maintenance page record m becomes the next state
LogCommit(m, op) ==
    /\ maintenance' = [m EXCEPT !.last = op]
    /\ UNCHANGED << viewVars, personnel, files, buffer, footer >>

\* initialize() up to the await of fetchSheetMetadata
LogInitialize ==
    /\ maintenance.load = "start"
    /\ LogCommit([maintenance EXCEPT !.load = "sheet"], "initialize")

\* fetchSheetMetadata resolved, with the sheet's properties or, after an
\* error, with its defaults: loadMetadata and loadMaintenanceLog both start
\* and run up to their fetch
LogSheetSettled ==
    /\ maintenance.load = "sheet"
    /\ LogCommit(LogShowLoadingState(
                     [maintenance EXCEPT !.load = "loading",
                                         !.metadata = "loading",
                                         !.log = "loading"]),
                 "sheet")

\* loadMetadata after its fetch resolved with a header and the rows entries
MetadataLoaded(entries) ==
    /\ maintenance.metadata = "loading"
    /\ LogCommit(updatePageMetadata(
                     [maintenance EXCEPT
                         !.metadata = "rows",
                         !.pageMetadata = StoreMetadata(entries, @)]),
                 "loadMetadata")

\* loadMetadata after its fetch resolved with no rows at all
MetadataNoRows ==
    /\ maintenance.metadata = "loading"
    /\ LogCommit(loadMetadataCatch([maintenance EXCEPT !.metadata = "empty"]),
                 "loadMetadataNoRows")

\* loadMetadata after its fetch rejected
MetadataFailed ==
    /\ maintenance.metadata = "loading"
    /\ LogCommit(loadMetadataCatch([maintenance EXCEPT !.metadata = "failed"]),
                 "loadMetadataFailed")

\* loadMaintenanceLog after its fetch resolved with a header and the rows
\* entries
LogLoaded(entries) ==
    /\ maintenance.log = "loading"
    /\ LogCommit(renderLogTable(
                     [maintenance EXCEPT !.log = "rows",
                                         !.entries = entries],
                     entries),
                 "loadMaintenanceLog")

\* loadMaintenanceLog after its fetch resolved with no rows at all
LogNoRows ==
    /\ maintenance.log = "loading"
    /\ LogCommit(LogShowErrorState([maintenance EXCEPT !.log = "empty"],
                                   "No data found in Maintenance sheet"),
                 "loadMaintenanceLogNoRows")

\* loadMaintenanceLog after its fetch rejected
LogFailed ==
    /\ maintenance.log = "loading"
    /\ LogCommit(LogShowErrorState([maintenance EXCEPT !.log = "failed"],
                                   "Failed to load maintenance log"),
                 "loadMaintenanceLogFailed")

(***************************************************************************)
(* The noise buffer (js/multi-cam-view.js, startLostSignalEffect): the      *)
(* indices of the low-resolution buffer that one frame writes, for canvases *)
(* of several sizes.                                                        *)
(***************************************************************************)
\* viewEl.offsetWidth and viewEl.offsetHeight when the canvas is created
OffsetSizes ==
    {[w |-> 0, h |-> 0], [w |-> 228, h |-> 229], [w |-> 233, h |-> 100],
     [w |-> 250, h |-> 300], [w |-> 1920, h |-> 1080]}

\* canvas.width = viewEl.offsetWidth || 800, canvas.height likewise
CanvasOf(size) == [width |-> IntOr(size.w, 800), height |-> IntOr(size.h, 600)]

\* Math.random() is sampled as k / FineDen here: its largest sample is
\* nearer to 1 than one pixel of the widest buffer
FineDen == RandDen * RandDen * RandDen * RandDen * RandDen
FineSamples == {0, RandDen, FineDen - 1}

\* the gaps between animation frames, in ms: below and above 1000 / 24, and
\* a tab that was in the background for three seconds
BufferGaps == {41, 50, 100, 3050}

BufferInit ==
    [w |-> 0, h |-> 0, smallW |-> 0, smallH |-> 0, length |-> 0,
     last |-> 0, t |-> 0, now |-> 0, frames |-> 0,
     rows |-> {}, writes |-> {}]

\* the elements data[lo] .. data[hi] are assigned
Write(kind, lo, hi) == [kind |-> kind, lo |-> lo, hi |-> hi]

\* idx = (y * smallW + x) * 4
PixelIndex(x, y, smallW) == (y * smallW + x) * 4

\* startLostSignalEffect(canvas): the size of the buffer and of its data
BufferStart(b, canvas) ==
    LET smallW == SmallSize(canvas.width)
        smallH == SmallSize(canvas.height)
    IN  [b EXCEPT !.w = canvas.width, !.h = canvas.height,
                  !.smallW = smallW, !.smallH = smallH,
                  !.length = smallW * smallH * 4,
                  !.last = 0, !.t = 0]

\* drawNoise(now): the writes of the base noise (every pixel, four
\* channels), of the band (three channels of every pixel of its rows) and of
\* a speckle drawn with the samples kx / FineDen and ky / FineDen
BufferDrawNoise(b, time, kx, ky) ==
    IF ~FrameDue(time, b.last)
    THEN [b EXCEPT !.now = time, !.rows = {}, !.writes = {}]
    ELSE
      LET t == b.t + (time - b.last)
          rows == BandRows(t, b.smallH)
          x == (kx * b.smallW) \div FineDen
          y == (ky * b.smallH) \div FineDen
          base == {Write("base", i, i + 3) : i \in {0, b.length - 4}}
          band == {Write("band", PixelIndex(0, r, b.smallW),
                         PixelIndex(b.smallW - 1, r, b.smallW) + 2) :
                      r \in rows}
          speckles ==
              IF Speckles(b.smallW, b.smallH) > 0
              THEN {Write("speckle", PixelIndex(x, y, b.smallW),
                          PixelIndex(x, y, b.smallW) + 2)}
              ELSE {}
      IN  [b EXCEPT !.now = time, !.last = time, !.t = t, !.rows = rows,
                    !.writes = base \cup band \cup speckles]

\* the buffer record b becomes the next state
BufferCommit(b) ==
    /\ buffer' = b
    /\ UNCHANGED << viewVars, personnel, files, maintenance, footer >>

\* a LOST SIGNAL camera is selected in a view of the given size
StartBuffer(size) ==
    /\ buffer.length = 0
    /\ BufferCommit(BufferStart(buffer, CanvasOf(size)))

\* the animation frame served gap ms after the one before
BufferFrame(gap, kx, ky) ==
    /\ buffer.length > 0
    /\ buffer.frames < MaxFrames
    /\ BufferCommit(
           [BufferDrawNoise(buffer, buffer.now + gap, kx, ky)
               EXCEPT !.frames = @ + 1])

(***************************************************************************)
(* The statistics footer of the file browser (unnamed/part_000): the size  *)
(* column of the Directory sheet, summed and formatted.  A number of bytes  *)
(* is kept in tenths of a byte, as its digits to the base 1024, lowest     *)
(* first; NaN is a value of its own.                                       *)
(***************************************************************************)
\* the digits of tenths * 1024^unit
Bytes(tenths, unit) ==
    [nan |-> FALSE,
     digits |-> [p \in 1..6 |-> IF p = unit + 1 THEN tenths ELSE 0]]

NaNBytes == [nan |-> TRUE, digits |-> [p \in 1..6 |-> 0]]

\* parseSizeToBytes on the size texts of the sheets: the text must match
\* /^([\d.]+)\s*(KB|MB|GB|TB|B)?$/i, its number is read by parseFloat and
\* multiplied by the power of 1024 of its unit
parseSizeToBytes(sizeStr) ==
    CASE sizeStr = "" -> Bytes(0, 0)
      [] sizeStr = "--" -> Bytes(0, 0)
      [] sizeStr = "512" -> Bytes(5120, 0)
      [] sizeStr = "0.5 B" -> Bytes(5, 0)
      [] sizeStr = "1.2 KB" -> Bytes(12, 1)
      [] sizeStr = "2 kb" -> Bytes(20, 1)
      [] sizeStr = "8812.0 KB" -> Bytes(88120, 1)
      [] sizeStr = "1.2.3 MB" -> Bytes(12, 2)
      [] sizeStr = "1.5 GB" -> Bytes(15, 3)
      [] sizeStr = "1 TB" -> Bytes(10, 4)
      [] sizeStr = "2000 TB" -> Bytes(20000, 4)
      [] sizeStr = "." -> NaNBytes
      [] OTHER -> Bytes(0, 0)

\* the size cells a row of the Directory sheet may hold
SizeTexts ==
    {"", "--", "512", "0.5 B", "1.2 KB", "2 kb", "8812.0 KB", "1.2.3 MB",
     "1.5 GB", "1 TB", "2000 TB", ".", "12 bytes", "1 PB"}

RECURSIVE SizeSheetsOf(_)
SizeSheetsOf(n) ==
    IF n = 0 THEN {<< >>}
    ELSE {Append(sheet, e) : sheet \in SizeSheetsOf(n - 1), e \in SizeTexts}

\* the size column of the Directory sheet
SizeSheets == UNION {SizeSheetsOf(n) : n \in 0..MaxFileRows}

RECURSIVE Carry(_, _, _)
\* the digits from position p on, each below 1024 but the highest
Carry(digits, p, carry) ==
    IF p = 6 THEN [digits EXCEPT ![6] = @ + carry]
    ELSE Carry([digits EXCEPT ![p] = (@ + carry) % 1024], p + 1,
               (digits[p] + carry) \div 1024)

\* totalBytes += the parsed size
AddBytes(a, b) ==
    [nan |-> a.nan \/ b.nan,
     digits |-> Carry([p \in 1..6 |-> a.digits[p] + b.digits[p]], 1, 0)]

Units == << "B", "KB", "MB", "GB", "TB" >>

\* Math.floor(Math.log(bytes) / Math.log(1024)) for bytes > 0: the highest
\* digit of the tenths is at position top, and the bytes reach 1024^(top-1)
\* when that digit is 10 or more
UnitIndex(digits) ==
    LET top == CHOOSE p \in 1..6 :
                   digits[p] # 0 /\ \A q \in (p + 1)..6 : digits[q] = 0
    IN  IF digits[top] >= 10 THEN top - 1 ELSE top - 2

\* (bytes / Math.pow(1024, i)).toFixed(1), in tenths
FixedTenths(digits, i) ==
    LET at(p) == IF p \in 1..6 THEN digits[p] ELSE 0
    IN  at(i + 2) * 1024 + at(i + 1) + (IF at(i) >= 512 THEN 1 ELSE 0)

\* formatBytes(bytes): the text value.toFixed(1) + ' ' + units[i]; for NaN
\* the index is NaN and the text is 'NaN undefined'
formatBytes(bytes) ==
    IF ~bytes.nan /\ \A p \in 1..6 : bytes.digits[p] = 0
    THEN [nan |-> FALSE, tenths |-> 0, unit |-> "B"]
    ELSE IF bytes.nan THEN [nan |-> TRUE, tenths |-> 0, unit |-> Undefined]
    ELSE LET i == UnitIndex(bytes.digits)
         IN  [nan |-> FALSE, tenths |-> FixedTenths(bytes.digits, i),
              unit |-> IF i + 1 \in DOMAIN Units THEN Units[i + 1]
                       ELSE Undefined]

RECURSIVE TotalBytes(_)
\* the forEach of calculateDirectoryStats over the size cells
TotalBytes(sizes) ==
    IF sizes = << >> THEN Bytes(0, 0)
    ELSE AddBytes(TotalBytes(SubSeq(sizes, 1, Len(sizes) - 1)),
                  parseSizeToBytes(StrOr(sizes[Len(sizes)], "--")))

calculateDirectoryStats(sizes) ==
    [fileCount |-> Len(sizes), dirCount |-> 0,
     totalSize |-> formatBytes(TotalBytes(sizes))]

FooterInit ==
    [load |-> "idle", sizes |-> << >>,
     stats |-> [fileCount |-> 0, dirCount |-> 0,
                totalSize |-> [nan |-> FALSE, tenths |-> 0,
                               unit |-> "static"]]]

FooterCommit(f) ==
    /\ footer' = f
    /\ UNCHANGED << viewVars, personnel, files, maintenance, buffer >>

\* loadDirectory up to its fetch
FooterLoadDirectory ==
    /\ footer.load = "idle"
    /\ FooterCommit([footer EXCEPT !.load = "loading"])

\* loadDirectory after its fetch resolved with a header and rows whose size
\* cells are sizes: calculateDirectoryStats and updateFooterStats
FooterStatsLoaded(sizes) ==
    /\ footer.load = "loading"
    /\ FooterCommit([footer EXCEPT !.load = "done", !.sizes = sizes,
                                   !.stats = calculateDirectoryStats(sizes)])

\* loadDirectory after its fetch resolved with no rows or rejected: the
\* footer keeps its text
FooterLoadFailed ==
    /\ footer.load = "loading"
    /\ FooterCommit([footer EXCEPT !.load = "failed"])

Init ==
    /\ pc = "start"
    /\ cameras = EmptyMap
    /\ cameraKeys = << >>
    /\ sections = EmptyMap
    /\ camEntries = << >>
    /\ activeId = Null
    /\ panPaused = FALSE
    /\ panNode = 0
    /\ glitchTimer = 0
    /\ lostSignalAnimationId = 0
    /\ view = << >>
    /\ list = << >>
    /\ labelText = "-"
    /\ stateText = "-"
    /\ hudText = << "", "" >>
    /\ btnText = "PAUSE PAN"
    /\ ariaLabel = << "", "" >>
    /\ glitchShow = FALSE
    /\ timers = {}
    /\ rafs = {}
    /\ listeners = {}
    /\ nextTimerId = 1
    /\ nextRafId = 1
    /\ calls = << >>
    /\ lastOp = [op |-> "none", id |-> Null, result |-> "ok", stale |-> FALSE,
                 prePaused |-> FALSE, preActive |-> Null]
    /\ noise = NoNoise
    /\ now = 0
    /\ pulse = 0
    /\ personnel = PersonnelInit
    /\ files = FilesInit
    /\ maintenance = MaintenanceInit
    /\ buffer = BufferInit
    /\ footer = FooterInit

Next ==
    \/ Initialize
    \/ \E entries \in Sheets : \E k \in FetchRandoms(entries) :
          FetchRows(entries, k)
    \/ FetchNoRows
    \/ FetchFailed
    \/ \E id \in SceneIds : \E k \in Randoms(cameras, id) : LoadScene(id, k)
    \/ \E i \in DOMAIN list : \E k \in Randoms(cameras, list[i].id) :
          ClickList(i, k)
    \/ TogglePan
    \/ DocumentClick
    \/ \E t \in timers, k \in RandSamples : GlitchTimerFires(t, k)
    \/ \E t \in timers : PlayTimerFires(t)
    \/ \E t \in timers : AssertTimerFires(t)
    \/ \E r \in rafs, in \in FrameInputs : AnimationFrame(r, in)
    \/ \E l \in listeners, outcome \in {"error", "played", "rejected"} :
          VideoSettles(l, outcome)
    \/ ImageError

Spec == Init /\ [][Next]_vars

\* the view showing LOST SIGNAL cameras, with the frames' times and random
\* samples drawn from NoiseFrameInputs; the glitch timers stay pending
NextNoise ==
    \/ Initialize
    \/ \E k \in FetchRandoms(SheetNoise) : FetchRows(SheetNoise, k)
    \/ \E i \in DOMAIN list : \E k \in Randoms(cameras, list[i].id) :
          ClickList(i, k)
    \/ \E r \in rafs, in \in NoiseFrameInputs : AnimationFrame(r, in)

SpecNoise == Init /\ [][NextNoise]_vars

\* the view once the cameras are loaded and no camera is selected by hand:
\* every event but a selection, with glitch timers on recycled ids
GlitchPulse == \E t \in timers, k \in RandSamples : GlitchTimerRefires(t, k)

NextGlitch ==
    \/ Initialize
    \/ \E entries \in Sheets \cup {SheetNoise} :
          \E k \in FetchRandoms(entries) : FetchRows(entries, k)
    \/ FetchNoRows
    \/ FetchFailed
    \/ TogglePan
    \/ DocumentClick
    \/ GlitchPulse
    \/ \E t \in timers : PlayTimerFires(t)
    \/ \E t \in timers : AssertTimerFires(t)
    \/ \E r \in rafs, in \in FrameInputs : AnimationFrame(r, in)
    \/ \E l \in listeners, outcome \in {"error", "played", "rejected"} :
          VideoSettles(l, outcome)
    \/ ImageError

\* a pending timer's callback is run by the event loop once its delay has
\* passed
SpecGlitch == Init /\ [][NextGlitch]_vars /\ WF_vars(GlitchPulse)

\* loadCameras alone, over the sheets LoadSheets
NextLoad ==
    \/ Initialize
    \/ /\ pc = "loading"
       /\ \E entries \in LoadSheets : \E k \in FetchRandoms(entries) :
             FetchRows(entries, k)
    \/ FetchNoRows
    \/ FetchFailed

SpecLoad == Init /\ [][NextLoad]_vars

\* the view with its unload
NextUnload == Next \/ Unload

SpecUnload == Init /\ [][NextUnload]_vars

\* the personnel directory page
NextPersonnel ==
    \/ PersonnelInitialize
    \/ PersonnelMetadataLoaded
    \/ PersonnelMetadataFailed
    \/ \E entries \in {PersonnelDirectory, << >>} : DirectoryLoaded(entries)
    \/ \E message \in {"No data found in PersonnelDirectory sheet",
                        "Failed to load directory"} :
          DirectoryFailed(message)
    \/ RecordsLoaded(PersonnelRecords)
    \/ RecordsFailed
    \/ \E i \in DOMAIN personnel.rows : ClickRow(i)
    \/ \E text \in PasswordEntries : SubmitPassword(text)
    \/ CancelPasswordPrompt
    \/ GoBack

SpecPersonnel == Init /\ [][NextPersonnel]_vars

\* the file browser page, over the directory sheets FileSheets
NextFiles ==
    \/ FilesInitialize
    \/ FilesMetadataLoaded
    \/ FilesMetadataFailed
    \/ /\ files.directory = "loading"
       /\ \E entries \in FileSheets : FilesDirectoryLoaded(entries)
    \/ \E message \in {"No data found in Directory sheet",
                        "Failed to load directory"} :
          FilesDirectoryFailed(message)
    \/ ContentLoaded(FileContents)
    \/ ContentFailed
    \/ \E i \in DOMAIN files.rows : ClickFileRow(i)
    \/ FilesBack

SpecFiles == Init /\ [][NextFiles]_vars

\* the maintenance log page: its two loads settle in either order
NextMaintenance ==
    \/ LogInitialize
    \/ LogSheetSettled
    \/ \E entries \in MetadataSheets : MetadataLoaded(entries)
    \/ MetadataNoRows
    \/ MetadataFailed
    \/ /\ maintenance.log = "loading"
       /\ \E entries \in LogSheets : LogLoaded(entries)
    \/ LogNoRows
    \/ LogFailed

SpecMaintenance == Init /\ [][NextMaintenance]_vars

\* the noise buffer alone, over the canvases of OffsetSizes
NextBuffer ==
    \/ \E size \in OffsetSizes : StartBuffer(size)
    \/ \E gap \in BufferGaps, kx \in FineSamples, ky \in FineSamples :
          BufferFrame(gap, kx, ky)

SpecBuffer == Init /\ [][NextBuffer]_vars

\* the footer of the file browser, over the size columns SizeSheets
NextFooter ==
    \/ FooterLoadDirectory
    \/ /\ footer.load = "loading"
       /\ \E sizes \in SizeSheets : FooterStatsLoaded(sizes)
    \/ FooterLoadFailed

SpecFooter == Init /\ [][NextFooter]_vars

(***************************************************************************)
(* Properties.                                                             *)
(***************************************************************************)
GlitchTimers == {t \in timers : t.kind = "glitch"}

GlitchStatuses == {"FLICKER", "INTERFERENCE", "LOST SIGNAL"}

\* a camera has been selected: loadScene is past its guard for an id of the
\* registry only when the registry has cameras, and loadCameras selects the
\* first one as soon as it has stored them
Selected == cameraKeys # << >> /\ activeId # Null

\* the status of cameras[activeId]
ActiveStatus ==
    IF activeId \in DOMAIN cameras THEN cameras[activeId].status ELSE Undefined

\* the last step was a call of loadScene that ran to its end
SceneLoaded ==
    /\ \/ lastOp.op \in {"loadScene", "click"}
       \/ lastOp.op = "loadCameras" /\ cameraKeys # << >>
    /\ lastOp.result = "ok"

NoisePresentation ==
    /\ Len(view) = 1
    /\ view[1].tag = "DIV"
    /\ view[1].className = "lost-signal-container"

MediaPresentation ==
    /\ Len(view) = 1
    /\ view[1].tag \in {"IMG", "VIDEO"}

StartCalls == {"setTimeout", "requestAnimationFrame"}
CancelCalls == {"clearTimeout", "cancelAnimationFrame"}

\* C1: once a camera has been selected the view holds exactly one
\* presentation, at most one glitch timer is pending and at most one noise
\* animation-frame request is pending.
C1_OnePresentationOneTimerOneLoop ==
    Selected =>
        /\ Len(view) = 1
        /\ Cardinality(GlitchTimers) <= 1
        /\ Cardinality(rafs) <= 1

\* a LOST SIGNAL camera is shown after other selections and its glitch
\* timer has fired and rescheduled: one timer and one request are pending
C1_Witness ==
    /\ lastOp.op = "bump"
    /\ ActiveStatus = "LOST SIGNAL"
    /\ Cardinality(GlitchTimers) = 1
    /\ Cardinality(rafs) = 1
    /\ Len(view) = 1
    /\ nextTimerId > 3

\* C2: after a camera B is selected, no glitch timer and no noise
\* animation-frame request created for an earlier selection is pending, and
\* no glitch pulse or noise tick of an earlier selection runs.
C2_NoStaleGlitchOrNoise ==
    /\ \A t \in GlitchTimers : ~t.stale
    /\ \A r \in rafs : ~r.stale
    /\ lastOp.op \in {"bump", "drawNoise"} => ~lastOp.stale

\* loadScene(B) has just cancelled both the glitch timer and the noise
\* request that camera A left pending
C2_Witness ==
    /\ SceneLoaded
    /\ lastOp.preActive \in DOMAIN cameras
    /\ lastOp.preActive # activeId
    /\ \E i \in DOMAIN calls :
          calls[i].fn = "clearTimeout" /\ calls[i].pending
    /\ \E i \in DOMAIN calls :
          calls[i].fn = "cancelAnimationFrame" /\ calls[i].pending

\* C3: loadScene(id) with an id that is not in the registry changes nothing
\* and reports the error without throwing.
C3_UnknownIdIsNoOp ==
    [][(lastOp'.op = "loadScene" /\ lastOp'.id \notin DOMAIN cameras) =>
         /\ lastOp'.result = "notfound"
         /\ UNCHANGED << activeId, view, panPaused, panNode, btnText,
                         glitchTimer, lostSignalAnimationId, timers, rafs >>
      ]_vars

\* C4: after a selection a glitch timer is pending if and only if the
\* active camera's status is FLICKER, INTERFERENCE or LOST SIGNAL, and no
\* glitch pulse occurs while the active camera has another status.
C4_GlitchIffDegraded ==
    Selected =>
        /\ (GlitchTimers # {}) <=> (ActiveStatus \in GlitchStatuses)
        /\ lastOp.op = "bump" => ActiveStatus \in GlitchStatuses

\* C5: after a selection the presentation is the noise canvas with a
\* pending noise loop if and only if the active camera's status is
\* LOST SIGNAL; for every other status it is a media element and no noise
\* loop is pending.
C5_NoiseIffLostSignal ==
    Selected =>
        /\ (NoisePresentation /\ rafs # {}) <=> (ActiveStatus = "LOST SIGNAL")
        /\ ActiveStatus = "LOST SIGNAL" =>
              \E r \in rafs : r.id = lostSignalAnimationId
        /\ ActiveStatus # "LOST SIGNAL" =>
              MediaPresentation /\ rafs = {} /\ lostSignalAnimationId = 0

\* the noise loop of the active LOST SIGNAL camera has ticked
C5_Witness ==
    /\ ActiveStatus = "LOST SIGNAL"
    /\ lastOp.op = "drawNoise"
    /\ NoisePresentation
    /\ \E r \in rafs : r.id = lostSignalAnimationId

\* C6 as stated: every delay d passed to the timer satisfies
\* glitchMinMs <= d < glitchMaxMs.
C6_DelayInHalfOpenRange ==
    \A t \in GlitchTimers :
        /\ t.min * RandDen <= t.delayNum
        /\ t.delayNum < t.max * RandDen

\* C6 amended: every delay d passed to the timer lies between the camera's
\* two bounds, the bounds included, whichever of them is the larger.
C6_DelayBetweenBounds ==
    \A t \in GlitchTimers :
        /\ t.min = cameras[t.cam].glitchMinMs
        /\ t.max = cameras[t.cam].glitchMaxMs
        /\ IF t.min <= t.max
           THEN t.min * RandDen <= t.delayNum /\ t.delayNum <= t.max * RandDen
           ELSE t.max * RandDen <= t.delayNum /\ t.delayNum <= t.min * RandDen

\* a reschedule for bounds 400/1200 with a delay above the minimum
C6_Witness ==
    /\ lastOp.op = "bump"
    /\ \E t \in GlitchTimers :
          t.min = 400 /\ t.max = 1200 /\ t.delayNum > 400 * RandDen

\* C7: every valid loadScene call leaves panPaused false, the label
\* 'PAUSE PAN' and, for a pan-enabled camera, the media element running.
C7_LoadSceneResetsPan ==
    SceneLoaded =>
        /\ panPaused = FALSE
        /\ btnText = "PAUSE PAN"
        /\ (cameras[activeId].panEnabled /\ MediaPresentation) =>
              /\ panNode = 1
              /\ view[panNode].animationPlayState = "running"

\* a pan-enabled camera with a media element was selected while the pan
\* was paused
C7_Witness ==
    /\ SceneLoaded
    /\ lastOp.prePaused
    /\ cameras[activeId].panEnabled
    /\ MediaPresentation

\* C8: after a selection the label reads 'RESUME PAN' exactly when the
\* paused flag is true, and the media element's play state is 'paused'
\* exactly when the flag is true.
C8_LabelAndPlayStateFollowFlag ==
    Selected =>
        /\ (btnText = "RESUME PAN") <=> panPaused
        /\ (btnText = "PAUSE PAN") <=> ~panPaused
        /\ MediaPresentation =>
              ((view[1].animationPlayState = "paused") <=> panPaused)

\* C9: within one loadScene call every cancellation of a pending timer or
\* animation-frame request comes before every start of a new one.
C9_CancelBeforeStart ==
    lastOp.op \in {"loadScene", "click", "loadCameras"} =>
        \A i, j \in DOMAIN calls :
            (i < j /\ calls[i].fn \in StartCalls) =>
                ~(calls[j].fn \in CancelCalls /\ calls[j].pending)

\* C10: nothing registered by the loadScene of an earlier selection (glitch
\* timer, video play timer, animation-frame request, video or document
\* listener) is pending after a later camera is selected, and none runs.
C10_NoEffectOutlivesSession ==
    /\ \A t \in timers : ~t.stale
    /\ \A r \in rafs : ~r.stale
    /\ \A l \in listeners : ~l.stale
    /\ ~lastOp.stale

\* C11: when the view is unloaded the session is torn down: no glitch timer
\* and no noise animation-frame request of the script is left pending.
C11_TornDownOnUnload ==
    pc = "unloaded" => GlitchTimers = {} /\ rafs = {} /\ glitchTimer = 0
                       /\ lostSignalAnimationId = 0

\* C12: stopGlitch and stopLostSignalEffect are idempotent: with a null
\* handle each leaves the session as it is, makes no scheduler call and
\* raises nothing, and a second call in a row leaves what the first call left.
C12_StopsAreIdempotent ==
    /\ glitchTimer = 0 => stopGlitch(Cur) = Cur
    /\ lostSignalAnimationId = 0 => stopLostSignalEffect(Cur) = Cur
    /\ stopGlitch(stopGlitch(Cur)) = stopGlitch(Cur)
    /\ stopLostSignalEffect(stopLostSignalEffect(Cur)) =
          stopLostSignalEffect(Cur)
    /\ ~stopGlitch(Cur).threw
    /\ ~stopLostSignalEffect(Cur).threw

\* loadScene has stopped a running glitch timer and a running noise loop and
\* started neither again: both handles are null, a further stop finds nothing
C12_Witness ==
    /\ SceneLoaded
    /\ glitchTimer = 0
    /\ lostSignalAnimationId = 0
    /\ \E i \in DOMAIN calls :
          calls[i].fn = "clearTimeout" /\ calls[i].pending
    /\ \E i \in DOMAIN calls :
          calls[i].fn = "cancelAnimationFrame" /\ calls[i].pending

\* C13: after the base noise, band, speckle and blend steps of any rendered
\* frame, every channel of the pixel written to the buffer, and of the copy
\* kept as previous frame, is an integer in 0..255.
C13_ChannelsInByteRange ==
    /\ \A i \in DOMAIN noise.data : noise.data[i] \in 0 .. 255
    /\ \A i \in DOMAIN noise.prev : noise.prev[i] \in 0 .. 255

\* a frame brightened by the band or whitened by a speckle has been blended
\* with the frame before it
C13_Witness ==
    /\ noise.rendered >= 2
    /\ noise.blended
    /\ noise.data[1] > 170

\* C14: a noise loop starts with no previous frame, also when an earlier loop
\* left one, and the first frame it renders is not blended.
C14_RestartBeginsUnblended ==
    /\ noise.rendered = 0 => noise.prev = << >>
    /\ noise.rendered = 1 => ~noise.blended

\* the first frame of a loop started after a loop that had rendered frames
C14_Witness ==
    /\ noise.hadPrev
    /\ noise.rendered = 1
    /\ noise.prev # << >>

\* C15: a tick of the noise loop renders a frame only if at least 1000 / 24
\* ms have passed since the last rendered frame, and every tick, rendering or
\* skipping, makes exactly one requestAnimationFrame call, whose request is
\* then the one pending request and the one lostSignalAnimationId holds.
C15_PacedAndSelfRequesting ==
    [][now' # now =>
         /\ noise'.rendered # noise.rendered =>
                24 * (now' - noise.last) >= 1000
         /\ Len(calls') = 1
         /\ calls'[1].fn = "requestAnimationFrame"
         /\ Cardinality(rafs') = 1
         /\ \A r \in rafs' : r.id = lostSignalAnimationId' /\ r \notin rafs]_vars

\* a tick too early after a rendered frame has skipped and requested the
\* next tick
C15_Witness ==
    /\ lastOp.op = "drawNoise"
    /\ noise.rendered >= 1
    /\ noise.last < now
    /\ \E r \in rafs : r.id = lostSignalAnimationId

\* C16: once started the glitch scheduler runs until it is stopped: when no
\* camera is selected any more and pending timers fire, pulses occur again
\* and again, and each pulse makes exactly one setTimeout call, whose timer
\* is then the one pending glitch timer and the one glitchTimer holds.
C16_GlitchRunsUntilStopped ==
    /\ [][pulse' # pulse =>
            /\ Len(calls') = 1
            /\ calls'[1].fn = "setTimeout"
            /\ Cardinality(GlitchTimers') = 1
            /\ \A t \in GlitchTimers' : t.id = glitchTimer']_vars
    /\ [](glitchTimer # 0 => ([]<>(pulse = 0) /\ []<>(pulse = 1)))

\* a second pulse has happened and has scheduled the third
C16_Witness ==
    /\ lastOp.op = "bump"
    /\ pulse = 0
    /\ glitchShow
    /\ \E t \in GlitchTimers : t.id = glitchTimer

\* the section label loadCameras gives a row
LabelOf(entry) == StrOr(entry.section, "UNKNOWN")

\* the rows of the sheet that have a camId
CamRows == SelectSeq(camEntries, LAMBDA entry : entry.camid # "")

\* renderCameraList has rendered sections into #list
ListRendered ==
    /\ pc = "ready"
    /\ list # << >>
    /\ \A i \in DOMAIN list : list[i].class # "message"

\* the positions of the section headers in #list
Headers == {i \in DOMAIN list : list[i].class = "section"}

\* the camIds of the .cam entries between the header at h and the next header
CamsUnder(h) ==
    LET n == Cardinality({i \in DOMAIN list :
                            /\ i > h
                            /\ \A j \in (h + 1) .. i : list[j].class = "cam"})
    IN  [k \in 1 .. n |-> list[h + k].id]

\* the camIds of the sheet's rows of one section label, in sheet order
RowsOf(label) ==
    LET rows == SelectSeq(CamRows, LAMBDA entry : LabelOf(entry) = label)
    IN  [k \in 1 .. Len(rows) |-> rows[k].camid]

\* C17: every camera record of the registry has a positive pan duration and
\* glitch bounds with 0 <= glitchMinMs <= glitchMaxMs.
C17_StoredBoundsValid ==
    \A id \in DOMAIN cameras :
        /\ cameras[id].panDuration > 0
        /\ 0 <= cameras[id].glitchMinMs
        /\ cameras[id].glitchMinMs <= cameras[id].glitchMaxMs

\* C18: the record stored for a row holds, for panDuration, glitchMinMs and
\* glitchMaxMs, the number its text parses to, and 7, 400 and 1200 when the
\* text does not parse to a number (numbers compared in tenths).
C18_ParsedNumberOrDefault ==
    lastOp.result # "error" =>
      \A i \in DOMAIN CamRows :
        LET entry == CamRows[i]
            cam == cameras[entry.camid]
            NumberOr(text, dflt) ==
                IF ParseFloat(text).ok THEN ParseFloat(text).val ELSE dflt
        IN  (\A j \in DOMAIN CamRows :
                j > i => CamRows[j].camid # entry.camid) =>
               /\ cam.panDuration = NumberOr(entry.panduration, 70)
               /\ cam.glitchMinMs * 10 = NumberOr(entry.glitchminms, 4000)
               /\ cam.glitchMaxMs * 10 = NumberOr(entry.glitchmaxms, 12000)

\* C19: every camera of the registry occurs exactly once in the section
\* lists, in the list of its own section label, and every entry of every
\* section list is the registry's record for its id.
C19_RegistryAndSectionsAgree ==
    LET places == UNION {{<< label, i >> : i \in DOMAIN sections[label]} :
                           label \in DOMAIN sections}
    IN  /\ \A id \in DOMAIN cameras :
              /\ Cardinality({p \in places :
                                 sections[p[1]][p[2]].id = id}) = 1
              /\ \A p \in places :
                    sections[p[1]][p[2]].id = id =>
                        p[1] = cameras[id].section
        /\ \A p \in places :
              /\ sections[p[1]][p[2]].id \in DOMAIN cameras
              /\ sections[p[1]][p[2]] = cameras[sections[p[1]][p[2]].id]

C21_DisplayReflectsActiveCamera ==
    Selected =>
        /\ activeId \in DOMAIN cameras
        /\ \A i \in DOMAIN list :
              list[i].class = "cam" =>
                  (list[i].active <=> list[i].id = activeId)
        /\ activeId \in DOMAIN cameras =>
              /\ labelText = cameras[activeId].location
              /\ stateText = cameras[activeId].status
              /\ hudText = << cameras[activeId].hudText,
                              ToUpperCase(activeId) >>

\* C22: when the runtime assertions of initialize run after cameras have
\* been loaded, both hold: an IMG is mounted in the view and a list entry
\* is highlighted as active.
C22_RuntimeAssertionsHold ==
    (lastOp.op = "assert" /\ cameraKeys # << >>) => lastOp.result = "ok"

\* the record view of personnelId is on display in page state p
RecordShown(p, personnelId) ==
    \E i \in DOMAIN p.personnelRecordViews :
        /\ p.personnelRecordViews[i].id = personnelId
        /\ ~p.personnelRecordViews[i].hidden

\* the directory entries that are confidential with a non-empty password
ProtectedEntries ==
    {i \in DOMAIN personnel.entries :
        /\ personnel.entries[i].isconfidential \in {"true", "TRUE"}
        /\ personnel.entries[i].password # ""}

\* the entered text is the password, as typed or with the surrounding white
\* space removed
Correct(entered, password) ==
    entered = password \/ Trim(entered) = password

\* C23: the record of a directory row that is confidential with a non-empty
\* password becomes visible only in a submitPassword step taken while that
\* record is the pending one, with the entered value equal to the row's
\* password; no open, cancel or goBack step shows it, before or after a
\* goBack.
C23_ShownOnlyByItsPassword ==
    [][\A i \in ProtectedEntries :
          LET entry == personnel.entries[i] IN
          (/\ ~RecordShown(personnel, entry.personnelid)
           /\ RecordShown(personnel', entry.personnelid)) =>
              /\ personnel'.last.op = "submitPassword"
              /\ personnel.pendingAccessPersonnelId = entry.personnelid
              /\ Correct(personnel'.last.entered, entry.password)
      ]_vars

\* the directory entry of the pending record
PendingEntry ==
    personnel.entries[CHOOSE i \in DOMAIN personnel.entries :
        personnel.entries[i].personnelid = personnel.pendingAccessPersonnelId]

\* C30: while a record is pending, submitting a wrong password shows the
\* error, shows no record and keeps the record and its password pending, and
\* submitting the correct one opens the record; cancelling the prompt hides
\* the modal, clears the pending record and password and shows no record.
C30_WrongPasswordAndCancel ==
    [][/\ (/\ personnel'.last.op = "submitPassword"
           /\ personnel.pendingAccessPersonnelId # Null) =>
              IF Correct(personnel'.last.entered, PendingEntry.password)
              THEN /\ RecordShown(personnel', PendingEntry.personnelid)
                   /\ personnel'.modalHidden
              ELSE /\ ~personnel'.errorHidden
                   /\ personnel'.personnelRecordViews =
                          personnel.personnelRecordViews
                   /\ personnel'.pendingAccessPersonnelId =
                          personnel.pendingAccessPersonnelId
                   /\ personnel'.pendingAccessPassword =
                          personnel.pendingAccessPassword
       /\ personnel'.last.op = "cancelPasswordPrompt" =>
              /\ personnel'.modalHidden
              /\ personnel'.pendingAccessPersonnelId = Null
              /\ personnel'.pendingAccessPassword = Null
              /\ personnel'.personnelRecordViews =
                     personnel.personnelRecordViews
      ]_vars

\* C24: a row of the file browser's table has the class clickable-row and
\* the handler openFile exactly when its isclickable cell is true and its
\* status, in lower case, is neither locked nor corrupted; a locked or
\* corrupted row has neither, whatever its isclickable cell holds.
C24_ClickableIffAllowed ==
    \A i \in DOMAIN files.rows :
        LET entry == files.entries[i]
            row == files.rows[i]
            hasClass == \E j \in DOMAIN row.class :
                            row.class[j] = "clickable-row"
            barred == ToLowerCase(entry.status) \in {"locked", "corrupted"}
            allowed == entry.isclickable \in {"true", "TRUE"} /\ ~barred
        IN /\ hasClass <=> allowed
           /\ row.onclick # Null <=> allowed
           /\ barred => ~hasClass /\ row.onclick = Null

\* a locked row and a corrupted row whose isclickable cell is true are in
\* the table beside a row that can be opened
C24_Witness ==
    /\ \E i \in DOMAIN files.rows :
          /\ files.entries[i].isclickable \in {"true", "TRUE"}
          /\ ToLowerCase(files.entries[i].status) \in {"locked", "corrupted"}
    /\ \E i \in DOMAIN files.rows : files.rows[i].onclick # Null

\* C25: when the load of the Metadata sheet fails or returns no rows, the
\* log table shows the rendered entries of the Maintenance sheet once its
\* own load has returned them, and shows no error unless that load itself
\* failed or returned no rows, whichever of the two loads settles first.
C25_MetadataIsOptional ==
    maintenance.metadata \in {"failed", "empty"} =>
        /\ maintenance.log = "rows" =>
               maintenance.table =
                   renderLogTable(maintenance, maintenance.entries).table
        /\ maintenance.table.kind = "error" =>
               maintenance.log \in {"failed", "empty"}
        /\ maintenance.log = "loading" => maintenance.table.kind = "loading"

\* the metadata load failed after the log entries were rendered
C25_Witness ==
    /\ maintenance.metadata = "failed"
    /\ maintenance.last = "loadMetadataFailed"
    /\ maintenance.log = "rows"
    /\ maintenance.entries # << >>
    /\ maintenance.table.kind = "rows"

\* C26 (as stated): the highlight is off when a pulse callback returns.
C26_HighlightOffAfterPulse ==
    lastOp.op = "bump" => ~glitchShow

\* C26: each glitch pulse removes the highlight class and adds it again at
\* once, so the class is on when the pulse callback returns; it stays on
\* between pulses, and only a handler that calls stopGlitch takes it off.
C26_HighlightOnAfterPulse ==
    [][/\ lastOp'.op = "bump" => glitchShow'
       /\ (glitchShow /\ ~glitchShow') =>
              lastOp'.op \in {"loadScene", "click", "loadCameras"}
      ]_vars

\* a pulse has run and the next one is pending
C26_Witness ==
    /\ lastOp.op = "bump"
    /\ glitchShow
    /\ glitchTimer # 0
    /\ \E t \in timers : t.kind = "glitch" /\ t.id = glitchTimer

\* C27 (as stated): in every rendered frame but the first of its loop each
\* colour channel of the pixel equals new * 0.15 + previous * 0.85 exactly.
C27_BlendExact ==
    [][(noise'.rendered = noise.rendered + 1 /\ noise.rendered >= 1) =>
          \A c \in 1 .. 3 :
              100 * noise'.data[c] = 15 * noise'.fresh[c] + 85 * noise.prev[c]
      ]_vars

\* C27: in every rendered frame but the first of its loop each colour
\* channel of the pixel is new * 0.15 + previous * 0.85 rounded to the
\* nearest integer, where new is the channel before the blend and previous
\* the stored channel of the frame rendered just before in the same loop;
\* the first frame of a loop is stored as it was drawn.
C27_BlendRounded ==
    [][/\ (noise'.rendered = noise.rendered + 1 /\ noise.rendered >= 1) =>
            \A c \in 1 .. 3 :
                LET exact == 15 * noise'.fresh[c] + 85 * noise.prev[c]
                    stored == 100 * noise'.data[c]
                IN  /\ stored - exact <= 50
                    /\ exact - stored <= 50
                    /\ noise'.prev[c] = noise'.data[c]
       /\ noise'.rendered = 1 =>
             noise'.data = noise'.fresh /\ noise'.prev = noise'.fresh
      ]_vars

\* a frame after the first of its loop whose stored channel differs from the
\* channel drawn for it
C27_Witness ==
    /\ noise.rendered >= 2
    /\ noise.blended
    /\ noise.data[1] # noise.fresh[1]

\* C28: while the active camera has its pan-enabled flag off or has the
\* status LOST SIGNAL, no element of the view carries the sweep (class pan
\* and its duration), at selection and after any number of pan toggles; for
\* LOST SIGNAL there is no pan node, so a toggle sets no play state at all.
C28_NoSweepWhenDisabled ==
    (/\ Selected
     /\ activeId \in DOMAIN cameras
     /\ \/ ~cameras[activeId].panEnabled
        \/ cameras[activeId].status = "LOST SIGNAL") =>
        /\ \A i \in DOMAIN view :
               /\ view[i].className # "pan"
               /\ view[i].animationDuration = 0
        /\ cameras[activeId].status = "LOST SIGNAL" =>
               /\ panNode = 0
               /\ \A i \in DOMAIN view : view[i].animationPlayState = ""

\* the pan was paused and resumed on a camera whose pan-enabled flag is off
C28_Witness ==
    /\ lastOp.op = "togglePan"
    /\ activeId \in DOMAIN cameras
    /\ ~cameras[activeId].panEnabled
    /\ cameras[activeId].status # "LOST SIGNAL"
    /\ panNode # 0
    /\ ~panPaused
    /\ view[panNode].animationPlayState = "running"

\* C29: after a load that ended without error, of a sheet with at least one
\* row that has a camId, the active camera is the one of the first such row
\* of the sheet.
C29_FirstRowAutoSelected ==
    (/\ lastOp.op = "loadCameras"
     /\ lastOp.result = "ok"
     /\ CamRows # << >>) =>
        activeId = CamRows[1].camid

\* C31: a click that opens a file or a personnel record whose id is no key
\* stored by the content load changes nothing: the directory stays visible,
\* every detail view stays hidden and no prompt appears; this covers a click
\* on a row rendered before the content load has finished.
C31_OpenWithoutContentIsNoOp ==
    [][/\ (/\ personnel'.last.op = "openPersonnelRecord"
           /\ personnel.rows[personnel'.last.row].personnelId
                  \notin personnel.personnelRecordData) =>
              [personnel' EXCEPT !.last = personnel.last] = personnel
       /\ (/\ files'.last.op = "openFile"
           /\ files.rows[files'.last.row].onclick
                  \notin files.fileContentData) =>
              [files' EXCEPT !.last = files.last] = files
      ]_vars

\* C32: once the fetch of loadCameras has completed the list no longer holds
\* the loading indicator: after a fetch without rows or a failure (of the
\* fetch, or while the rows are stored) it holds the error panel, and
\* otherwise what renderCameraList builds from the sections, which is the
\* message 'No cameras found' when no row has a camId.
C32_LoadingIndicatorReplaced ==
    pc = "ready" =>
        /\ list # Message("Loading cameras...")
        /\ lastOp.op = "loadCameras" =>
              CASE lastOp.result = "norows" ->
                      list = Message("No camera data found in Cams sheet")
                [] lastOp.result = "error" ->
                      list = Message("Failed to load cameras")
                [] OTHER ->
                      /\ [i \in DOMAIN list |->
                             [list[i] EXCEPT !.active = FALSE]] =
                            RenderCameraList(sections)
                      /\ CamRows = << >> => list = Message("No cameras found")

\* rows were fetched and storing them threw: the error panel is in the list
C32_Witness ==
    /\ pc = "ready"
    /\ lastOp.op = "loadCameras"
    /\ lastOp.result = "error"
    /\ camEntries # << >>
    /\ list = Message("Failed to load cameras")

\* C33: in the file browser and in the personnel page, in every state,
\* either the directory is visible and no detail view is, or the directory
\* is hidden and exactly one detail view is visible.
C33_DirectoryOrOneDetailView ==
    /\ LET shown == {i \in DOMAIN files.fileContentViews :
                        ~files.fileContentViews[i].hidden}
       IN  IF files.directoryHidden THEN Cardinality(shown) = 1
           ELSE shown = {}
    /\ LET shown == {i \in DOMAIN personnel.personnelRecordViews :
                        ~personnel.personnelRecordViews[i].hidden}
       IN  IF personnel.directoryHidden THEN Cardinality(shown) = 1
           ELSE shown = {}

\* C34: in every state of the personnel page the password modal is visible
\* exactly when a pending record id and a pending password are set, and both
\* are null while the modal is hidden.
C34_ModalIffPending ==
    /\ ~personnel.modalHidden <=>
           /\ personnel.pendingAccessPersonnelId # Null
           /\ personnel.pendingAccessPassword # Null
    /\ personnel.modalHidden =>
           /\ personnel.pendingAccessPersonnelId = Null
           /\ personnel.pendingAccessPassword = Null

\* a correct password has closed the modal of a pending record and its view
\* is on display
C34_Witness ==
    /\ personnel.last.op = "submitPassword"
    /\ personnel.modalHidden
    /\ personnel.pendingAccessPersonnelId = Null
    /\ \E i \in DOMAIN personnel.personnelRecordViews :
          ~personnel.personnelRecordViews[i].hidden

\* the elements of the view v with their play state left out
Presentation(v) ==
    [n \in DOMAIN v |-> [v[n] EXCEPT !.animationPlayState = ""]]

\* C35: a click on the pan button flips the pan flag and sets the button
\* label and the play state of the panned element, and nothing else of the
\* session: the active camera, the elements of the view, the list, the
\* labels, the pending glitch timer and the pending animation-frame request
\* of the noise are as before the click.
C35_TogglePanLeavesEffectsAlone ==
    [][lastOp'.op = "togglePan" =>
          /\ panPaused' = ~panPaused
          /\ btnText' = IF panPaused' THEN "RESUME PAN" ELSE "PAUSE PAN"
          /\ Presentation(view') = Presentation(view)
          /\ UNCHANGED << activeId, panNode, glitchTimer, timers, glitchShow,
                          lostSignalAnimationId, rafs, noise, list,
                          labelText, stateText, hudText, ariaLabel, cameras >>
      ]_vars

\* the pan has been toggled while a glitch timer and an animation-frame
\* request of the noise are pending
C35_Witness ==
    /\ lastOp.op = "togglePan"
    /\ \E t \in GlitchTimers : t.id = glitchTimer
    /\ \E r \in rafs : r.id = lostSignalAnimationId

\* C36: the low-resolution buffer is max(64, floor(0.28 * dimension)) wide
\* and high for the canvas' dimensions, every element a frame assigns (base
\* noise, band, speckle) is an element of its data, and the band brightens
\* the rows bandY-3..bandY+2 that lie in 0..height-1, at most six.
C36_WritesInsideBuffer ==
    buffer.length > 0 =>
        /\ \A d \in {<< buffer.smallW, buffer.w >>,
                      << buffer.smallH, buffer.h >>} :
              /\ d[1] >= 64
              /\ 28 * d[2] < 6500 => d[1] = 64
              /\ 28 * d[2] >= 6400 =>
                    100 * d[1] <= 28 * d[2] /\ 28 * d[2] < 100 * (d[1] + 1)
        /\ buffer.length = buffer.smallW * buffer.smallH * 4
        /\ \A wr \in buffer.writes :
              0 <= wr.lo /\ wr.lo <= wr.hi /\ wr.hi < buffer.length
        /\ Cardinality(buffer.rows) <= 6
        /\ buffer.rows =
              IF buffer.writes = {} THEN {}
              ELSE {y \in 0 .. (buffer.smallH - 1) :
                      /\ BandY(buffer.t, buffer.smallH) - 3 <= y
                      /\ y <= BandY(buffer.t, buffer.smallH) + 2}

\* a frame whose band reaches past the last row, with a speckle on the last
\* pixel of the buffer
C36_Witness ==
    /\ buffer.length > 0
    /\ BandY(buffer.t, buffer.smallH) + 2 >= buffer.smallH
    /\ buffer.rows # {}
    /\ \E wr \in buffer.writes :
          wr.kind = "speckle" /\ wr.hi = buffer.length - 2

\* C37: for every directory listing the total size in the footer carries a
\* unit among B, KB, MB, GB and TB, and its value is a number.
C37_TotalHasUnit ==
    footer.load = "done" =>
        /\ \E u \in DOMAIN Units : footer.stats.totalSize.unit = Units[u]
        /\ ~footer.stats.totalSize.nan

====
